---- MODULE Spec2Model ----
(***************************************************************************)
(* Model of the gasless-sdk client: the EIP-712 typed-data hasher          *)
(* (src/eip712), the ERC-2612 permit builder (src/permit/eip2612.ts) and   *)
(* the transfer orchestrator GaslessSDK.transferGasless                    *)
(* (src/core/gasless-sdk.ts), together with the relayer HTTP service and   *)
(* the chain it talks to.                                                  *)
(***************************************************************************)
EXTENDS Integers, Sequences, FiniteSets, TLC

(***************************************************************************)
(* Bounds of the model.                                                    *)
(***************************************************************************)
MaxCalls == 2      \* calls of transferGasless / estimateGas on the one SDK instance
MaxNonce == 2      \* cap on the on-chain nonce counters
MaxEnvChanges == 1 \* cap on wallet / account changes made by the embedding app

(***************************************************************************)
(* Byte strings.  A byte string is a sequence of items; an item is one     *)
(* byte, or an opaque fixed-width value (a keccak256 digest, an ABI word   *)
(* holding a uint256 or an address) or the UTF-8 bytes of a string.        *)
(***************************************************************************)
Item(kind, val, str, pre) == [kind |-> kind, val |-> val, str |-> str, pre |-> pre]

Byte(n) == Item("byte", n, "", <<>>)

Zeros(n) == [k \in 1..n |-> Byte(0)]

Width(item) ==
  CASE item.kind = "byte" -> 1
    [] item.kind = "hash" -> 32
    [] item.kind = "uint256" -> 32
    [] item.kind = "address" -> 32
    [] item.kind = "utf8" -> Len(item.str)

RECURSIVE ByteLen(_)
ByteLen(bytes) ==
  IF bytes = <<>> THEN 0 ELSE Width(Head(bytes)) + ByteLen(Tail(bytes))

\* viem toHex(string): the UTF-8 bytes of the string
toHex(s) == <<Item("utf8", 0, s, <<>>)>>

\* viem keccak256: a 32-byte digest, taken as collision-free, so the digest
\* is identified with the byte string that was hashed
keccak256(bytes) == Item("hash", 0, "", bytes)

\* an address may be written in lower case or with its checksum capitals; both
\* spellings denote the same 20 bytes.  The relayer address of the preset is
\* the one address the model writes in both ways
ChecksumSpelling == "0xc500592C002a23EeeB4e93CCfBA60B4c2683fDa9"
LowerCaseSpelling == "0xc500592c002a23eeeb4e93ccfba60b4c2683fda9"

\* the 20 bytes an address string denotes, named by its lower-case spelling
AddressBytes(a) == IF a = ChecksumSpelling THEN LowerCaseSpelling ELSE a

\* viem encodeAbiParameters for one static parameter: every value takes one
\* 32-byte word; bytesN is right-padded with zero bytes, uint256 and address
\* are left-padded
EncodeParam(type, v) ==
  CASE type = "bytes32" -> <<v>>
    [] type = "bytes1" -> <<v>> \o Zeros(31)
    [] type = "uint256" -> <<Item("uint256", v, "", <<>>)>>
    [] type = "address" -> <<Item("address", 0, AddressBytes(v), <<>>)>>

RECURSIVE encodeAbiParameters(_, _)
encodeAbiParameters(types, values) ==
  IF types = <<>> THEN <<>>
  ELSE EncodeParam(Head(types), Head(values))
         \o encodeAbiParameters(Tail(types), Tail(values))

(***************************************************************************)
(* Typed-data hasher (src/eip712).                                         *)
(***************************************************************************)
EIP712_DOMAIN_TYPEHASH ==
  keccak256(toHex("EIP712Domain(string name,string version,uint256 chainId,address verifyingContract)"))

META_TRANSFER_TYPE_STRING ==
  "MetaTransfer(address owner,address token,address recipient,uint256 amount,uint256 fee,uint256 deadline,uint256 nonce)"

\* the members of META_TRANSFER_TYPE_STRING, in the order they appear in it
MetaTransferTypeStringFields ==
  <<"owner", "token", "recipient", "amount", "fee", "deadline", "nonce">>

META_TRANSFER_TYPEHASH == keccak256(toHex(META_TRANSFER_TYPE_STRING))

\* a faulty createDomainSeparator that leaves the chainId out
createDomainSeparatorWithoutChainId(domain) ==
  keccak256(encodeAbiParameters(
    <<"bytes32", "bytes32", "bytes32", "address">>,
    <<EIP712_DOMAIN_TYPEHASH,
      keccak256(toHex(domain.name)),
      keccak256(toHex(domain.version)),
      domain.verifyingContract>>))

createDomainSeparator(domain) ==
  keccak256(encodeAbiParameters(
    <<"bytes32", "bytes32", "bytes32", "uint256", "address">>,
    <<EIP712_DOMAIN_TYPEHASH,
      keccak256(toHex(domain.name)),
      keccak256(toHex(domain.version)),
      domain.chainId,
      domain.verifyingContract>>))

\* the value order of encodeMetaTransferData, after the type hash
EncodeMetaTransferFields ==
  <<"owner", "token", "recipient", "amount", "fee", "deadline", "nonce">>

encodeMetaTransferData(metaTx) ==
  encodeAbiParameters(
    <<"bytes32", "address", "address", "address",
      "uint256", "uint256", "uint256", "uint256">>,
    <<META_TRANSFER_TYPEHASH>>
      \o [k \in 1..Len(EncodeMetaTransferFields) |-> metaTx[EncodeMetaTransferFields[k]]])

\* the byte string createMetaTransferHash hashes
MetaTransferHashPreimage(domain, metaTx) ==
  encodeAbiParameters(
    <<"bytes1", "bytes1", "bytes32", "bytes32">>,
    <<Byte(25), Byte(1),
      createDomainSeparator(domain),
      keccak256(encodeMetaTransferData(metaTx))>>)

createMetaTransferHash(domain, metaTx) ==
  keccak256(MetaTransferHashPreimage(domain, metaTx))

(***************************************************************************)
(* Decimal strings: bigint.toString() and BigInt(string).  A string of     *)
(* digits is the sequence of its characters.                               *)
(***************************************************************************)
Digits == <<"0", "1", "2", "3", "4", "5", "6", "7", "8", "9">>

\* a faulty conversion that writes the digits lowest first
RECURSIVE toStringReversed(_)
toStringReversed(n) ==
  IF n < 10 THEN <<Digits[n + 1]>>
  ELSE <<Digits[(n % 10) + 1]>> \o toStringReversed(n \div 10)

RECURSIVE toString(_)
toString(n) ==
  IF n < 10 THEN <<Digits[n + 1]>>
  ELSE toString(n \div 10) \o <<Digits[(n % 10) + 1]>>

DigitValue(c) == (CHOOSE k \in 1..10 : Digits[k] = c) - 1

RECURSIVE BigInt(_)
BigInt(s) ==
  IF Len(s) = 1 THEN DigitValue(s[1])
  ELSE BigInt(SubSeq(s, 1, Len(s) - 1)) * 10 + DigitValue(s[Len(s)])

(***************************************************************************)
(* Configuration (src/config/chains.ts, GaslessSDK.resolveConfig).         *)
(***************************************************************************)
Undefined == "undefined"
NoNumber == -1     \* an absent numeric option

PRESET_RELAYER_ADDRESS == "0xc500592C002a23EeeB4e93CCfBA60B4c2683fDa9"

RELAYER_URLS(preset) ==
  [production |-> "https://gasless-relayer-sepolia.mantle.com",
   staging |-> "https://gasless-relayer-sepolia-staging.mantle.com",
   development |-> "https://gasless-relayer-sepolia-dev.mantle.com",
   local |-> "http://localhost:3001",
   test |-> "http://localhost:3001"]

PresetChainId == 5003

createChainConfig(preset, environment) ==
  [chainId |-> PresetChainId,
   rpcUrl |-> "https://rpc.sepolia.mantle.xyz",
   gaslessRelayerAddress |-> PRESET_RELAYER_ADDRESS,
   relayerServiceUrl |-> RELAYER_URLS(preset)[environment]]

getChainConfig(preset, environment) == createChainConfig(preset, environment)

\* a ?? b on strings and on numbers
Nullish(a, b) == IF a = Undefined THEN b ELSE a
NullishNum(a, b) == IF a = NoNumber THEN b ELSE a

NoConfig ==
  [chainId |-> 0, rpcUrl |-> "", gaslessRelayerAddress |-> "",
   relayerServiceUrl |-> "", environment |-> ""]

\* a faulty resolution in which the preset wins over the values given
resolveConfigPresetFirst(c) ==
  LET environment == Nullish(c.environment, "production") IN
  IF c.chainPreset # Undefined
  THEN LET chainConfig == getChainConfig(c.chainPreset, environment) IN
       [ok |-> TRUE, error |-> "",
        config |->
          [chainId |-> chainConfig.chainId,
           rpcUrl |-> chainConfig.rpcUrl,
           gaslessRelayerAddress |-> chainConfig.gaslessRelayerAddress,
           relayerServiceUrl |-> chainConfig.relayerServiceUrl,
           environment |-> environment]]
  ELSE [ok |-> FALSE,
        error |-> "When not using a preset, chainId, rpcUrl, and gaslessRelayerAddress are required",
        config |-> NoConfig]

resolveConfig(c) ==
  LET environment == Nullish(c.environment, "production") IN
  IF c.chainPreset # Undefined
  THEN LET chainConfig == getChainConfig(c.chainPreset, environment) IN
       [ok |-> TRUE, error |-> "",
        config |->
          [chainId |-> NullishNum(c.chainId, chainConfig.chainId),
           rpcUrl |-> Nullish(c.rpcUrl, chainConfig.rpcUrl),
           gaslessRelayerAddress |->
             Nullish(c.gaslessRelayerAddress, chainConfig.gaslessRelayerAddress),
           relayerServiceUrl |->
             Nullish(c.relayerServiceUrl,
                     Nullish(c.localRelayerUrl, chainConfig.relayerServiceUrl)),
           environment |-> environment]]
  ELSE IF \/ c.chainId = NoNumber \/ c.chainId = 0
          \/ c.rpcUrl \in {Undefined, ""}
          \/ c.gaslessRelayerAddress \in {Undefined, ""}
       THEN [ok |-> FALSE,
             error |-> "When not using a preset, chainId, rpcUrl, and gaslessRelayerAddress are required",
             config |-> NoConfig]
       ELSE [ok |-> TRUE, error |-> "",
             config |->
               [chainId |-> c.chainId,
                rpcUrl |-> c.rpcUrl,
                gaslessRelayerAddress |-> c.gaslessRelayerAddress,
                relayerServiceUrl |->
                  Nullish(c.relayerServiceUrl, Nullish(c.localRelayerUrl, "")),
                environment |-> environment]]

\* the GaslessConfig values the SDK is constructed with
GaslessConfigs ==
  { [chainPreset |-> "mantle-sepolia", environment |-> Undefined, chainId |-> NoNumber,
     rpcUrl |-> Undefined, gaslessRelayerAddress |-> Undefined,
     relayerServiceUrl |-> Undefined, localRelayerUrl |-> Undefined],
    [chainPreset |-> Undefined, environment |-> "staging", chainId |-> 5000,
     rpcUrl |-> "https://rpc.mantle.xyz", gaslessRelayerAddress |-> "0xR2",
     relayerServiceUrl |-> "https://relayer.example", localRelayerUrl |-> Undefined],
    [chainPreset |-> Undefined, environment |-> Undefined, chainId |-> 5000,
     rpcUrl |-> "https://rpc.mantle.xyz", gaslessRelayerAddress |-> "0xR2",
     relayerServiceUrl |-> Undefined, localRelayerUrl |-> Undefined] }

(***************************************************************************)
(* Signature codec (parseSignature / formatSignature of src/eip712,        *)
(* hexToSignature / signatureToHex of the helpers).  A hex string is the   *)
(* sequence of its characters, "0", "x" first.                             *)
(***************************************************************************)
HexDigits ==
  <<"0", "1", "2", "3", "4", "5", "6", "7", "8", "9", "a", "b", "c", "d", "e", "f">>
UpperHexDigits == <<"A", "B", "C", "D", "E", "F">>

\* the value of one hex digit, in either case
HexDigitValue(c) ==
  IF \E k \in 1..16 : HexDigits[k] = c
  THEN (CHOOSE k \in 1..16 : HexDigits[k] = c) - 1
  ELSE (CHOOSE k \in 1..6 : UpperHexDigits[k] = c) + 9

\* parseInt(s, 16) of a string of hex digits
RECURSIVE parseInt16(_)
parseInt16(s) ==
  IF Len(s) = 1 THEN HexDigitValue(s[1])
  ELSE parseInt16(SubSeq(s, 1, Len(s) - 1)) * 16 + HexDigitValue(s[Len(s)])

\* String.prototype.slice(from, to) with 0 <= from, to: the characters at the
\* 0-based positions from .. to - 1 that exist
slice(s, from, to) == SubSeq(s, from + 1, IF to < Len(s) THEN to ELSE Len(s))

\* Number.prototype.toString(16): lower-case digits, no leading zero
RECURSIVE toString16(_)
toString16(n) ==
  IF n < 16 THEN <<HexDigits[n + 1]>>
  ELSE toString16(n \div 16) \o <<HexDigits[(n % 16) + 1]>>

\* a string of n characters c
Fill(c, n) == [k \in 1..n |-> c]

\* padStart(2, '0')
padStart2(s) == IF Len(s) < 2 THEN [k \in 1..(2 - Len(s)) |-> "0"] \o s ELSE s

NoSignatureData == [ok |-> FALSE, error |-> "", v |-> NoNumber, r |-> <<>>, s |-> <<>>]

\* a faulty parseSignature that hands out the two halves in the wrong order
parseSignatureSwapped(signature) ==
  IF Len(signature) # 132
  THEN [NoSignatureData EXCEPT !.error = "Invalid signature length"]
  ELSE [ok |-> TRUE, error |-> "",
        v |-> parseInt16(slice(signature, 130, 132)),
        r |-> <<"0", "x">> \o slice(signature, 66, 130),
        s |-> slice(signature, 0, 66)]

\* a faulty parseSignature that only refuses signatures that are too short
parseSignatureMinLength(signature) ==
  IF Len(signature) < 132
  THEN [NoSignatureData EXCEPT !.error = "Invalid signature length"]
  ELSE [ok |-> TRUE, error |-> "",
        v |-> parseInt16(slice(signature, 130, 132)),
        r |-> slice(signature, 0, 66),
        s |-> <<"0", "x">> \o slice(signature, 66, 130)]

\* parseSignature: ok = FALSE stands for the thrown error
parseSignature(signature) ==
  IF Len(signature) # 132
  THEN [NoSignatureData EXCEPT !.error = "Invalid signature length"]
  ELSE [ok |-> TRUE, error |-> "",
        v |-> parseInt16(slice(signature, 130, 132)),
        r |-> slice(signature, 0, 66),
        s |-> <<"0", "x">> \o slice(signature, 66, 130)]

\* a faulty formatSignature that does not pad v to two digits
formatSignatureNoPad(sig) ==
  <<"0", "x">> \o slice(sig.r, 2, Len(sig.r)) \o slice(sig.s, 2, Len(sig.s))
    \o toString16(sig.v)

formatSignature(sig) ==
  <<"0", "x">> \o slice(sig.r, 2, Len(sig.r)) \o slice(sig.s, 2, Len(sig.s))
    \o padStart2(toString16(sig.v))

hexToSignature(hex) ==
  IF Len(hex) # 132
  THEN [NoSignatureData EXCEPT !.error = "Invalid signature length"]
  ELSE [ok |-> TRUE, error |-> "",
        v |-> parseInt16(slice(hex, 130, 132)),
        r |-> slice(hex, 0, 66),
        s |-> <<"0", "x">> \o slice(hex, 66, 130)]

signatureToHex(signature) ==
  <<"0", "x">> \o slice(signature.r, 2, Len(signature.r))
    \o slice(signature.s, 2, Len(signature.s))
    \o padStart2(toString16(signature.v))

\* a faulty completion that leaves a short signature as it is
signPermitSignatureAsIs(signature) == signature

\* signPermit: signature.length === 132 ? signature : signature + '1b'
signPermitSignature(signature) ==
  IF Len(signature) = 132 THEN signature ELSE signature \o <<"1", "b">>

\* what signPermit makes of the wallet's signature: the PermitData it returns,
\* or the error parseSignature throws
signPermitData(signature, permit) ==
  LET p == parseSignature(signPermitSignature(signature)) IN
  [ok |-> p.ok, error |-> p.error, value |-> permit.value, deadline |-> permit.deadline,
   v |-> p.v, r |-> p.r, s |-> p.s]

(***************************************************************************)
(* Token amounts as decimal text (formatTokenAmount, parseTokenAmount).    *)
(***************************************************************************)
\* String.prototype.split('.'): the pieces between the dots, at least one
RECURSIVE split(_)
split(s) ==
  IF \A k \in 1..Len(s) : s[k] # "." THEN <<s>>
  ELSE LET d == CHOOSE k \in 1..Len(s) : s[k] = "." /\ \A j \in 1..(k - 1) : s[j] # "."
       IN <<SubSeq(s, 1, d - 1)>> \o split(SubSeq(s, d + 1, Len(s)))

\* /^\d+$/.test(s)
IsDigits(s) == Len(s) > 0 /\ \A k \in 1..Len(s) : \E j \in 1..10 : Digits[j] = s[k]

\* a faulty formatTokenAmount that forgets the leading zeros of the fraction
formatTokenAmountNoPad(amount, decimals) ==
  LET divisor == 10 ^ decimals
      quotient == amount \div divisor
      remainder == amount % divisor
      fractional == toString(remainder)
      kept == CHOOSE n \in 0..Len(fractional) :
                /\ \A k \in (n + 1)..Len(fractional) : fractional[k] = "0"
                /\ n > 0 => fractional[n] # "0"
  IN IF remainder = 0 THEN toString(quotient)
     ELSE toString(quotient) \o <<".">> \o SubSeq(fractional, 1, kept)

formatTokenAmount(amount, decimals) ==
  LET divisor == 10 ^ decimals
      quotient == amount \div divisor
      remainder == amount % divisor
      digits == toString(remainder)
      \* padStart(decimals, '0')
      fractional == IF Len(digits) < decimals
                    THEN Fill("0", decimals - Len(digits)) \o digits ELSE digits
      \* replace(/0+$/, ''): the digits up to the last one that is not 0
      kept == CHOOSE n \in 0..Len(fractional) :
                /\ \A k \in (n + 1)..Len(fractional) : fractional[k] = "0"
                /\ n > 0 => fractional[n] # "0"
  IN IF remainder = 0 THEN toString(quotient)
     ELSE toString(quotient) \o <<".">> \o SubSeq(fractional, 1, kept)

\* the value returned, or the error thrown
parseTokenAmount(amount, decimals) ==
  LET parts == split(amount)
      \* const [integer, fractional = ''] = amount.split('.')
      integer == parts[1]
      fractional == IF Len(parts) >= 2 THEN parts[2] ELSE <<>>
  IN IF ~IsDigits(integer)
     THEN [ok |-> FALSE, error |-> "Invalid amount format", value |-> NoNumber]
     ELSE IF fractional # <<>> /\ ~IsDigits(fractional)
     THEN [ok |-> FALSE, error |-> "Invalid amount format", value |-> NoNumber]
     ELSE IF Len(fractional) > decimals
     THEN [ok |-> FALSE, error |-> "Too many decimal places", value |-> NoNumber]
     ELSE [ok |-> TRUE, error |-> "",
           \* padEnd(decimals, '0')
           value |-> BigInt(integer \o fractional
                              \o Fill("0", decimals - Len(fractional)))]

(***************************************************************************)
(* The world of one SDK instance: its owners, one token, one recipient.    *)
(***************************************************************************)
Owners == {"0xA1", "0xA2"}
Token == "0xT"
Recipient == "0xB"
TokenName == "USD Coin"
TokenVersion == "2"         \* what the token's version() returns
TokenDomainVersion == "2"   \* the version field of the token's eip712Domain()

StartTime == 100 * 1000      \* the clock when the SDK is constructed
PastDeadline == StartTime - 1
DEADLINE_WINDOW == 7200

\* at most two invocations are in flight at once; a settled invocation's slot
\* is taken by the next call
Invs == {1, 2}

\* the GaslessTransferParams the caller passes; an absent fee or deadline
\* is NoNumber
TransferParams ==
  { [token |-> Token, to |-> Recipient, amount |-> 5, fee |-> NoNumber, deadline |-> NoNumber],
    [token |-> Token, to |-> Recipient, amount |-> 5, fee |-> 1, deadline |-> NoNumber],
    [token |-> Token, to |-> Recipient, amount |-> 5, fee |-> NoNumber,
     deadline |-> PastDeadline] }

NoParams == [token |-> "", to |-> "", amount |-> 0, fee |-> NoNumber, deadline |-> NoNumber]
NoDomain == [name |-> "", version |-> "", chainId |-> 0, verifyingContract |-> ""]
NoMetaTx ==
  [owner |-> "", token |-> "", recipient |-> "", amount |-> 0, fee |-> 0,
   deadline |-> 0, nonce |-> 0]
NoPermit == [owner |-> "", spender |-> "", value |-> 0, nonce |-> 0, deadline |-> 0]
\* what a wallet signature attests: who signed which typed data
NoSigned ==
  [signer |-> "", domain |-> NoDomain, primaryType |-> "", types |-> <<>>,
   permit |-> NoPermit, metaTx |-> NoMetaTx, inv |-> 0]
NoPermitData == [value |-> 0, deadline |-> 0, v |-> NoNumber, r |-> NoSigned, s |-> NoSigned]
NoResponse == [kind |-> "none", ok |-> FALSE, hash |-> "", success |-> FALSE, error |-> ""]
NoResult == [hash |-> "", success |-> FALSE, metaTxHash |-> ""]

AllReads == {"getNonce", "nonces", "tokenInfo", "tokenVersion"}

IdleInv ==
  [pc |-> "idle", id |-> 0, kind |-> "", acceptedAtCall |-> {}, params |-> NoParams, userAddress |-> "", deadline |-> 0, fee |-> 0,
   pending |-> {}, userNonce |-> NoNumber, tokenNonce |-> NoNumber,
   tokenName |-> "", tokenVersion |-> "", versionSource |-> "",
   metaTx |-> NoMetaTx, permitRequest |-> NoPermit, permitDomain |-> NoDomain,
   relayerDomain |-> NoDomain, permitData |-> NoPermitData,
   metaTxSignature |-> NoSigned, authUser |-> "", timestamp |-> 0,
   signReq |-> NoSigned, response |-> NoResponse, error |-> "", result |-> NoResult,
   gas |-> 0, log |-> <<>>]

VARIABLES
  config,        \* GaslessSDK.config, the resolved configuration
  walletClient,  \* GaslessSDK._walletClient: "null", "noaccount" or its account address
  envChanges,    \* wallet changes made so far by the embedding application
  relayerNonce,  \* the relayer contract's getNonce(owner)
  tokenNonce,    \* the token's nonces(owner)
  now,           \* Date.now() / 1000; a run is short, the clock stands during it
  inv,           \* the transferGasless invocations
  posts,         \* the envelopes POSTed to {relayerServiceUrl}/relay-transaction
  accepted,      \* the submissions the relayer contract executed
  calls,         \* the number of calls made so far
  hashIn,        \* the arguments of a createMetaTransferHash call
  hashOut,       \* its result
  codecIn,       \* the arguments of a call of the signature codec or the serializer
  codecOut,      \* what the codec calls made so far returned
  facade,        \* a construction of GaslessSDK or a Gasless.quickTransfer call
  aa,            \* a GaslessAASDK instance and its transferGasless invocation
  mw             \* the relayer's SecurityManager: its nonce store and requests

sdkVars == <<config, walletClient, envChanges, relayerNonce, tokenNonce, now, inv,
             posts, accepted, calls>>
hashVars == <<hashIn, hashOut>>
codecVars == <<codecIn, codecOut>>
auxVars == <<facade, aa, mw>>
vars == <<config, walletClient, envChanges, relayerNonce, tokenNonce, now, inv,
          posts, accepted, calls, hashIn, hashOut, codecIn, codecOut, facade, aa, mw>>

HasAccount(w) == w \notin {"null", "noaccount"}

\* nothing constructed, nothing called
IdleFacade ==
  [op |-> "none", input |-> [kind |-> "none"], ok |-> FALSE, error |-> "",
   config |-> NoConfig, hash |-> ""]

\* a GaslessAASDK after construction (walletClient = null), no transfer called
IdleAA ==
  [pc |-> "idle", walletClient |-> "null", walletChanges |-> 0, log |-> <<>>,
   owner |-> "", userOp |-> [paymaster |-> FALSE, signer |-> "", signed |-> FALSE],
   sent |-> <<>>, userOpHash |-> "", elapsed |-> 0, polls |-> <<>>,
   error |-> "", receipt |-> "null"]

\* a SecurityManager whose store holds no nonce key, and no request
MaxRequests == 3
IdleMw ==
  [store |-> {}, storeFailed |-> FALSE,
   req |-> [q \in 1..MaxRequests |-> [pc |-> "none", key |-> "", outcome |-> ""]]]

NoHashIn == [domain |-> NoDomain, metaTx |-> NoMetaTx]
NoHashOut ==
  [done |-> FALSE, digest |-> keccak256(<<>>),
   separated |-> FALSE, separator |-> keccak256(<<>>)]

NoCodecIn == [sig |-> <<>>, amount |-> 0, fee |-> 0, nonce |-> 0, deadline |-> 0]
NoSent ==
  [metaTx |-> [owner |-> "", token |-> "", recipient |-> "", amount |-> <<>>,
               fee |-> <<>>, nonce |-> <<>>, deadline |-> <<>>],
   permitData |-> [value |-> <<>>, deadline |-> <<>>, v |-> NoNumber,
                   r |-> NoSigned, s |-> NoSigned]]
NoCodecOut ==
  [op |-> "none", parsed |-> NoSignatureData, hex |-> <<>>,
   permitValue |-> 0, permitDeadline |-> 0,
   sent |-> NoSent, metaTx |-> NoMetaTx, permitData |-> NoPermitData]

(***************************************************************************)
(* Permit builder (src/permit/eip2612.ts).                                 *)
(***************************************************************************)
createPermitDomain(tokenAddress, chainId, tokenName, tokenVersion) ==
  [name |-> tokenName, version |-> tokenVersion, chainId |-> chainId,
   verifyingContract |-> tokenAddress]

PermitTypes == <<"owner", "spender", "value", "nonce", "deadline">>

\* the signTypedData request signPermit makes of the wallet
PermitSignRequest(account, domain, permit, i) ==
  [signer |-> account, domain |-> domain, primaryType |-> "Permit",
   types |-> PermitTypes, permit |-> permit, metaTx |-> NoMetaTx, inv |-> i]

\* the signatures a wallet answers a signTypedData request with: the length
\* of the hex string and its last byte
WalletSignatures ==
  { [len |-> 132, v |-> 27], [len |-> 130, v |-> NoNumber],
    [len |-> 66, v |-> NoNumber] }

\* signature.length === 132 ? signature : signature + '1b'
PadSignature(sig) ==
  IF sig.len = 132 THEN sig ELSE [len |-> sig.len + 2, v |-> 27]

\* parseSignature on the shape of a signature: r and s are the two halves of
\* what the wallet signed
parseSignatureShape(sig, signed) ==
  IF sig.len # 132
  THEN [ok |-> FALSE, error |-> "Invalid signature length", v |-> NoNumber,
        r |-> NoSigned, s |-> NoSigned]
  ELSE [ok |-> TRUE, error |-> "", v |-> sig.v, r |-> signed, s |-> signed]

\* the PermitData signPermit returns for the wallet's answer
signPermitResult(sig, signed, permit) ==
  LET p == parseSignatureShape(PadSignature(sig), signed) IN
  [ok |-> p.ok, error |-> p.error,
   data |-> IF p.ok
            THEN [value |-> permit.value, deadline |-> permit.deadline,
                  v |-> p.v, r |-> p.r, s |-> p.s]
            ELSE NoPermitData]

(***************************************************************************)
(* Transfer orchestrator (GaslessSDK, src/core/gasless-sdk.ts).            *)
(***************************************************************************)
FORCED_CHAIN_ID == 5003
ESTIMATED_GAS == 200000

\* the types array transferGasless passes to signTypedData
SignTypedDataMetaTransferTypes ==
  <<"owner", "token", "recipient", "amount", "fee", "deadline", "nonce">>

\* params.deadline || now + 7200, params.fee || 0n
DeadlineOf(p, t) == IF p.deadline \in {NoNumber, 0} THEN t + DEADLINE_WINDOW ELSE p.deadline
FeeOf(p) == IF p.fee \in {NoNumber, 0} THEN 0 ELSE p.fee

\* a faulty build that conflates the two nonce spaces: the MetaTransfer takes
\* the token's permit nonce
BuildMetaTxSwapped(userAddress, p, fee, deadline, userNonce, tokNonce) ==
  [owner |-> userAddress, token |-> p.token, recipient |-> p.to, amount |-> p.amount,
   fee |-> fee, deadline |-> deadline, nonce |-> tokNonce]

BuildMetaTx(userAddress, p, fee, deadline, userNonce, tokNonce) ==
  [owner |-> userAddress, token |-> p.token, recipient |-> p.to, amount |-> p.amount,
   fee |-> fee, deadline |-> deadline, nonce |-> userNonce]

\* a faulty build whose permit covers the amount but not the fee
BuildPermitRequestAmountOnly(userAddress, p, fee, deadline, userNonce, tokNonce) ==
  [owner |-> userAddress, spender |-> config.gaslessRelayerAddress,
   value |-> p.amount, nonce |-> tokNonce, deadline |-> deadline]

BuildPermitRequest(userAddress, p, fee, deadline, userNonce, tokNonce) ==
  [owner |-> userAddress, spender |-> config.gaslessRelayerAddress,
   value |-> p.amount + fee, nonce |-> tokNonce, deadline |-> deadline]

RelayerDomain ==
  [name |-> "GaslessRelayer", version |-> "1", chainId |-> config.chainId,
   verifyingContract |-> config.gaslessRelayerAddress]

\* the domain of the signTypedData request for the MetaTransfer
MetaTransferSigningDomain(relayerDomain) ==
  [name |-> relayerDomain.name, version |-> relayerDomain.version,
   chainId |-> FORCED_CHAIN_ID, verifyingContract |-> relayerDomain.verifyingContract]

MetaTransferSignRequest(account, relayerDomain, metaTx, i) ==
  [signer |-> account, domain |-> MetaTransferSigningDomain(relayerDomain),
   primaryType |-> "MetaTransfer", types |-> SignTypedDataMetaTransferTypes,
   permit |-> NoPermit, metaTx |-> metaTx, inv |-> i]

\* a settled invocation keeps its outcome, the answer of the relayer and the
\* I/O it issued; its locals are gone
Rejected(r, msg) ==
  [IdleInv EXCEPT !.pc = "rejected", !.id = r.id, !.kind = r.kind, !.error = msg,
                  !.response = r.response, !.log = r.log]

Resolved(r, result) ==
  [IdleInv EXCEPT !.pc = "resolved", !.id = r.id, !.kind = r.kind, !.result = result,
                  !.response = r.response, !.log = r.log]

Settled == {"idle", "rejected", "resolved", "estimated"}

\* a call takes the first free slot
FreeSlot(i) ==
  /\ inv[i].pc \in Settled
  /\ \A j \in Invs : j < i => inv[j].pc \notin Settled
  /\ calls < MaxCalls

NewInv(kind) ==
  [IdleInv EXCEPT !.id = calls + 1, !.kind = kind, !.acceptedAtCall = accepted]

Set(i, r) == inv' = [inv EXCEPT ![i] = r]

\* setWalletClient
setWalletClient(w) ==
  /\ envChanges < MaxEnvChanges
  /\ walletClient' = w
  /\ envChanges' = envChanges + 1
  /\ UNCHANGED <<config, relayerNonce, tokenNonce, now, inv, posts, accepted, calls, hashVars, codecVars, auxVars>>

\* estimateGas
estimateGas(i) ==
  /\ FreeSlot(i)
  /\ calls' = calls + 1
  /\ posts' = [posts EXCEPT ![i] = <<>>]
  /\ IF ~HasAccount(walletClient)
     THEN Set(i, Rejected(NewInv("estimateGas"),
                          "Wallet client not set or no account available"))
     ELSE Set(i, [NewInv("estimateGas") EXCEPT !.pc = "estimated", !.gas = ESTIMATED_GAS])
  /\ UNCHANGED <<config, walletClient, envChanges, relayerNonce, tokenNonce, now,
                 accepted, hashVars, codecVars, auxVars>>

\* a faulty transferGasless that asks window.ethereum before it checks the wallet
transferGaslessUnchecked(i, p) ==
  /\ FreeSlot(i)
  /\ calls' = calls + 1
  /\ posts' = [posts EXCEPT ![i] = <<>>]
  /\ Set(i, [NewInv("transferGasless") EXCEPT
                !.pc = "eth_accounts", !.params = p,
                !.log = Append(@, "eth_accounts")])
  /\ UNCHANGED <<config, walletClient, envChanges, relayerNonce, tokenNonce, now,
                 accepted, hashVars, codecVars, auxVars>>

\* transferGasless, to its first await: the wallet check and the eth_accounts
\* request to window.ethereum
transferGasless(i, p) ==
  /\ FreeSlot(i)
  /\ calls' = calls + 1
  /\ posts' = [posts EXCEPT ![i] = <<>>]
  /\ IF ~HasAccount(walletClient)
     THEN Set(i, Rejected(NewInv("transferGasless"),
                          "Wallet client not set or no account available"))
     ELSE Set(i, [NewInv("transferGasless") EXCEPT
                    !.pc = "eth_accounts", !.params = p,
                    !.log = Append(@, "eth_accounts")])
  /\ UNCHANGED <<config, walletClient, envChanges, relayerNonce, tokenNonce, now,
                 accepted, hashVars, codecVars, auxVars>>

\* eth_accounts answers (res: the selected account, "none" for an empty list,
\* "fail" when the request throws); the account update, userAddress, deadline
\* and fee, and the four chain reads are issued
EthAccountsReturn(i, res) ==
  /\ inv[i].pc = "eth_accounts"
  /\ IF res = "fail"
     THEN /\ Set(i, Rejected(inv[i], "eth_accounts request failed"))
          /\ UNCHANGED walletClient
     ELSE IF ~HasAccount(walletClient)
     THEN /\ Set(i, Rejected(inv[i], "Cannot read properties of undefined (reading 'address')"))
          /\ UNCHANGED walletClient
     ELSE LET w == IF res # "none" /\ res # walletClient THEN res ELSE walletClient IN
          /\ walletClient' = w
          /\ Set(i, [inv[i] EXCEPT
                       !.pc = "reads", !.userAddress = w,
                       !.deadline = DeadlineOf(inv[i].params, now),
                       !.fee = FeeOf(inv[i].params),
                       !.pending = AllReads,
                       !.log = @ \o <<"getNonce", "nonces", "tokenInfo", "tokenVersion">>])
  /\ UNCHANGED <<config, envChanges, relayerNonce, tokenNonce, now, posts, accepted,
                 calls, hashVars, codecVars, auxVars>>

\* a faulty getUserNonce that adds to the chain's counter the number of the
\* invocation, as a local nonce manager would
getUserNonceLocallyCounted(i, ok) ==
  /\ inv[i].pc = "reads" /\ "getNonce" \in inv[i].pending
  /\ IF ok
     THEN Set(i, [inv[i] EXCEPT !.userNonce = relayerNonce[inv[i].userAddress] + inv[i].id,
                                !.pending = @ \ {"getNonce"}])
     ELSE Set(i, Rejected(inv[i], "Failed to get user nonce: " \o "rpc error"))
  /\ UNCHANGED <<config, walletClient, envChanges, relayerNonce, tokenNonce, now,
                 posts, accepted, calls, hashVars, codecVars, auxVars>>

\* a faulty getUserNonce that answers from a value cached at construction
getUserNonceCached(i, ok) ==
  /\ inv[i].pc = "reads" /\ "getNonce" \in inv[i].pending
  /\ IF ok
     THEN Set(i, [inv[i] EXCEPT !.userNonce = 0, !.pending = @ \ {"getNonce"}])
     ELSE Set(i, Rejected(inv[i], "Failed to get user nonce: " \o "rpc error"))
  /\ UNCHANGED <<config, walletClient, envChanges, relayerNonce, tokenNonce, now,
                 posts, accepted, calls, hashVars, codecVars, auxVars>>

\* getUserNonce answers
getUserNonce(i, ok) ==
  /\ inv[i].pc = "reads" /\ "getNonce" \in inv[i].pending
  /\ IF ok
     THEN Set(i, [inv[i] EXCEPT !.userNonce = relayerNonce[inv[i].userAddress],
                                !.pending = @ \ {"getNonce"}])
     ELSE Set(i, Rejected(inv[i], "Failed to get user nonce: " \o "rpc error"))
  /\ UNCHANGED <<config, walletClient, envChanges, relayerNonce, tokenNonce, now,
                 posts, accepted, calls, hashVars, codecVars, auxVars>>

\* getTokenNonce answers
getTokenNonce(i, ok) ==
  /\ inv[i].pc = "reads" /\ "nonces" \in inv[i].pending
  /\ IF ok
     THEN Set(i, [inv[i] EXCEPT !.tokenNonce = tokenNonce[inv[i].userAddress],
                                !.pending = @ \ {"nonces"}])
     ELSE Set(i, Rejected(inv[i], "Failed to get token nonce: " \o "rpc error"))
  /\ UNCHANGED <<config, walletClient, envChanges, relayerNonce, tokenNonce, now,
                 posts, accepted, calls, hashVars, codecVars, auxVars>>

\* getTokenInfo answers.  The answers of getTokenInfo and getTokenVersion read
\* no state that changes, so they commute with every other step: they are
\* taken after the two nonce reads, in this order
getTokenInfo(i, ok) ==
  /\ inv[i].pc = "reads" /\ "tokenInfo" \in inv[i].pending
  /\ inv[i].pending \cap {"getNonce", "nonces"} = {}
  /\ IF ok
     THEN Set(i, [inv[i] EXCEPT !.tokenName = TokenName, !.pending = @ \ {"tokenInfo"}])
     ELSE Set(i, Rejected(inv[i], "Failed to get token info: " \o "rpc error"))
  /\ UNCHANGED <<config, walletClient, envChanges, relayerNonce, tokenNonce, now,
                 posts, accepted, calls, hashVars, codecVars, auxVars>>

\* a faulty getTokenVersion that never asks the token
TokenVersionConstant(versionOk, domainOk) == "1"

\* the version getTokenVersion returns: version(), else the version field of
\* eip712Domain(), else "1"
TokenVersionResult(versionOk, domainOk) ==
  IF versionOk THEN TokenVersion
  ELSE IF domainOk THEN TokenDomainVersion
  ELSE "1"

\* the read of the token that answered getTokenVersion
TokenVersionSource(versionOk, domainOk) ==
  IF versionOk THEN "version"
  ELSE IF domainOk THEN "eip712Domain"
  ELSE "none"

\* getTokenVersion answers
getTokenVersion(i, versionOk, domainOk) ==
  /\ inv[i].pc = "reads" /\ "tokenVersion" \in inv[i].pending
  /\ "tokenInfo" \notin inv[i].pending
  /\ Set(i, [inv[i] EXCEPT !.tokenVersion = TokenVersionResult(versionOk, domainOk),
                           !.versionSource = TokenVersionSource(versionOk, domainOk),
                           !.pending = @ \ {"tokenVersion"}])
  /\ UNCHANGED <<config, walletClient, envChanges, relayerNonce, tokenNonce, now,
                 posts, accepted, calls, hashVars, codecVars, auxVars>>

\* all four reads have answered: the MetaTransfer, the Permit and the two
\* domains are built and signPermit asks the wallet to sign the Permit
BuildAndSignPermit(i) ==
  /\ inv[i].pc = "reads" /\ inv[i].pending = {}
  /\ LET r == inv[i]
         metaTx == BuildMetaTx(r.userAddress, r.params, r.fee, r.deadline,
                               r.userNonce, r.tokenNonce)
         permit == BuildPermitRequest(r.userAddress, r.params, r.fee, r.deadline,
                                      r.userNonce, r.tokenNonce)
         permitDomain == createPermitDomain(r.params.token, config.chainId,
                                            r.tokenName, r.tokenVersion)
         built == [r EXCEPT !.metaTx = metaTx, !.permitRequest = permit,
                            !.permitDomain = permitDomain,
                            !.relayerDomain = RelayerDomain]
     IN IF ~HasAccount(walletClient)
        THEN Set(i, Rejected(built, "Wallet client must have an account"))
        ELSE Set(i, [built EXCEPT
                       !.pc = "signPermit",
                       !.signReq = PermitSignRequest(walletClient, permitDomain, permit, r.id),
                       !.log = Append(@, "signPermit")])
  /\ UNCHANGED <<config, walletClient, envChanges, relayerNonce, tokenNonce, now,
                 posts, accepted, calls, hashVars, codecVars, auxVars>>

\* the wallet answers the Permit request (sig: its signature, userOk: FALSE
\* when the user refuses); signPermit returns and getChainId is asked
SignPermitReturn(i, sig, userOk) ==
  /\ inv[i].pc = "signPermit"
  /\ LET r == inv[i]
         res == signPermitResult(sig, r.signReq, r.permitRequest)
     IN IF ~userOk
        THEN Set(i, Rejected(r, "User rejected the request"))
        ELSE IF ~res.ok
        THEN Set(i, Rejected(r, res.error))
        ELSE IF walletClient = "null"
        THEN Set(i, Rejected([r EXCEPT !.permitData = res.data],
                             "Cannot read properties of null (reading 'getChainId')"))
        ELSE Set(i, [r EXCEPT !.pc = "getChainId", !.permitData = res.data,
                              !.signReq = NoSigned,
                              !.log = Append(@, "getChainId")])
  /\ UNCHANGED <<config, walletClient, envChanges, relayerNonce, tokenNonce, now,
                 posts, accepted, calls, hashVars, codecVars, auxVars>>

\* getChainId answers; the wallet is asked to sign the MetaTransfer
GetChainIdReturn(i, ok) ==
  /\ inv[i].pc = "getChainId"
  /\ LET r == inv[i] IN
     IF ~ok
     THEN Set(i, Rejected(r, "getChainId failed"))
     ELSE IF ~HasAccount(walletClient)
     THEN Set(i, Rejected(r, "Could not find an Account to execute with this Action"))
     ELSE Set(i, [r EXCEPT
                    !.pc = "signMetaTx",
                    !.signReq = MetaTransferSignRequest(walletClient, r.relayerDomain,
                                                        r.metaTx, r.id),
                    !.log = Append(@, "signMetaTx")])
  /\ UNCHANGED <<config, walletClient, envChanges, relayerNonce, tokenNonce, now,
                 posts, accepted, calls, hashVars, codecVars, auxVars>>

\* a faulty continuation that goes on to the submission although the user
\* refused to sign the MetaTransfer
SignMetaTxReturnIgnoringRefusal(i, userOk) ==
  /\ inv[i].pc = "signMetaTx"
  /\ config.relayerServiceUrl # "" /\ HasAccount(walletClient)
  /\ Set(i, [inv[i] EXCEPT !.pc = "signAuth",
                           !.metaTxSignature = IF userOk THEN inv[i].signReq ELSE NoSigned,
                           !.signReq = NoSigned,
                           !.authUser = walletClient, !.timestamp = now,
                           !.log = Append(@, "signMessage")])
  /\ UNCHANGED <<config, walletClient, envChanges, relayerNonce, tokenNonce, now,
                 posts, accepted, calls, hashVars, codecVars, auxVars>>

\* a faulty continuation that starts the submission without looking at the
\* relayer URL
SignMetaTxReturnWithoutUrlCheck(i, userOk) ==
  /\ inv[i].pc = "signMetaTx"
  /\ LET r == inv[i]
         signed == [r EXCEPT !.metaTxSignature = r.signReq, !.signReq = NoSigned]
     IN IF ~userOk
        THEN Set(i, Rejected(r, "User rejected the request"))
        ELSE IF ~HasAccount(walletClient)
        THEN Set(i, Rejected(signed, "Wallet client not available"))
        ELSE Set(i, [signed EXCEPT !.pc = "signAuth", !.authUser = walletClient,
                                   !.timestamp = now,
                                   !.log = Append(@, "signMessage")])
  /\ UNCHANGED <<config, walletClient, envChanges, relayerNonce, tokenNonce, now,
                 posts, accepted, calls, hashVars, codecVars, auxVars>>

\* the wallet answers the MetaTransfer request; with a relayer URL
\* executeTransferViaService starts and asks the wallet for the auth signature
SignMetaTxReturn(i, userOk) ==
  /\ inv[i].pc = "signMetaTx"
  /\ LET r == inv[i]
         signed == [r EXCEPT !.metaTxSignature = r.signReq, !.signReq = NoSigned]
     IN IF ~userOk
        THEN Set(i, Rejected(r, "User rejected the request"))
        ELSE IF config.relayerServiceUrl = ""
        THEN Set(i, Rejected(signed,
               "No relayer service URL configured for " \o config.environment
                 \o " environment. Please ensure your backend relayer service is running."))
        ELSE IF ~HasAccount(walletClient)
        THEN Set(i, Rejected(signed, "Wallet client not available"))
        ELSE Set(i, [signed EXCEPT !.pc = "signAuth", !.authUser = walletClient,
                                   !.timestamp = now,
                                   !.log = Append(@, "signMessage")])
  /\ UNCHANGED <<config, walletClient, envChanges, relayerNonce, tokenNonce, now,
                 posts, accepted, calls, hashVars, codecVars, auxVars>>

\* the JSON body of the POST
Envelope(r) ==
  [metaTx |-> [owner |-> r.metaTx.owner, token |-> r.metaTx.token,
               recipient |-> r.metaTx.recipient,
               amount |-> toString(r.metaTx.amount), fee |-> toString(r.metaTx.fee),
               nonce |-> toString(r.metaTx.nonce),
               deadline |-> toString(r.metaTx.deadline)],
   permitData |-> [value |-> toString(r.permitData.value),
                   deadline |-> toString(r.permitData.deadline),
                   v |-> r.permitData.v, r |-> r.permitData.r, s |-> r.permitData.s],
   signature |-> r.metaTxSignature,
   chainId |-> config.chainId,
   userAddress |-> r.authUser,
   timestamp |-> r.timestamp,
   userSignature |-> [signer |-> r.authUser, timestamp |-> r.timestamp,
                      user |-> r.authUser]]

\* the wallet answers the auth-message request; the envelope is POSTed
SignAuthReturn(i, userOk) ==
  /\ inv[i].pc = "signAuth"
  /\ IF ~userOk
     THEN /\ Set(i, Rejected(inv[i], "Relayer service error: " \o "User rejected the request"))
          /\ UNCHANGED posts
     ELSE /\ Set(i, [inv[i] EXCEPT !.pc = "fetch", !.log = Append(@, "POST")])
          /\ posts' = [posts EXCEPT ![i] = Append(@, Envelope(inv[i]))]
  /\ UNCHANGED <<config, walletClient, envChanges, relayerNonce, tokenNonce, now,
                 accepted, calls, hashVars, codecVars, auxVars>>

(***************************************************************************)
(* The relayer service answering the POST, and the chain behind it.        *)
(***************************************************************************)
\* the components of the metaTx tuple in the relayer's executeMetaTransfer ABI
GaslessAbiMetaTxComponents ==
  <<"owner", "token", "recipient", "amount", "fee", "nonce", "deadline">>

\* the relayer's conversion of the received strings for the contract call
metaTxForContract(m) ==
  [owner |-> m.owner, token |-> m.token, recipient |-> m.recipient,
   amount |-> BigInt(m.amount), fee |-> BigInt(m.fee),
   deadline |-> BigInt(m.deadline), nonce |-> BigInt(m.nonce)]

permitDataForContract(pd) ==
  [value |-> BigInt(pd.value), deadline |-> BigInt(pd.deadline),
   v |-> pd.v, r |-> pd.r, s |-> pd.s]

\* the values of the metaTx tuple as the relayer ABI-encodes them, in order
RelayerCallTuple(e) ==
  [k \in 1..Len(GaslessAbiMetaTxComponents) |->
     metaTxForContract(e.metaTx)[GaslessAbiMetaTxComponents[k]]]

\* the values of the struct the wallet hashed and signed, in the declared order
SignedStructValues(sig) ==
  [k \in 1..Len(sig.types) |-> sig.metaTx[sig.types[k]]]

\* the domains the deployed contracts verify signatures under
ContractDomain ==
  [name |-> "GaslessRelayer", version |-> "1", chainId |-> config.chainId,
   verifyingContract |-> config.gaslessRelayerAddress]
TokenDomain ==
  [name |-> TokenName, version |-> TokenVersion, chainId |-> config.chainId,
   verifyingContract |-> Token]

\* executeMetaTransfer succeeds: the MetaTransfer signature is the owner's
\* under the contract's domain, nonce and deadline are current, and the
\* token accepts the permit
ChainAccepts(e) ==
  LET m == metaTxForContract(e.metaTx)
      pd == permitDataForContract(e.permitData)
  IN /\ e.signature.signer = m.owner
     /\ e.signature.domain = ContractDomain
     /\ e.signature.metaTx = m
     /\ m.nonce = relayerNonce[m.owner]
     /\ m.deadline >= now
     /\ pd.v \in {27, 28}
     /\ pd.r.signer = m.owner
     /\ pd.r.domain = TokenDomain
     /\ pd.r.permit = [owner |-> m.owner, spender |-> config.gaslessRelayerAddress,
                       value |-> pd.value, nonce |-> tokenNonce[m.owner],
                       deadline |-> pd.deadline]
     /\ pd.value >= m.amount + m.fee
     /\ pd.deadline >= now

\* POST /relay-transaction: the relayer sends the transaction and answers
\* 200 {success, hash} or 500 {error}
RelayTransaction(i) ==
  /\ inv[i].pc = "fetch" /\ inv[i].response.kind = "none"
  /\ LET e == posts[i][Len(posts[i])]
         o == e.metaTx.owner
     IN IF ChainAccepts(e)
        THEN /\ relayerNonce[o] < MaxNonce /\ tokenNonce[o] < MaxNonce + 1
             /\ relayerNonce' = [relayerNonce EXCEPT ![o] = @ + 1]
             /\ tokenNonce' = [tokenNonce EXCEPT ![o] = @ + 1]
             /\ accepted' = accepted \cup
                  {[owner |-> o, nonce |-> BigInt(e.metaTx.nonce)]}
             /\ Set(i, [inv[i] EXCEPT !.response =
                          [kind |-> "http", ok |-> TRUE, hash |-> "0xhash",
                           success |-> TRUE, error |-> ""]])
        ELSE /\ UNCHANGED <<relayerNonce, tokenNonce, accepted>>
             /\ Set(i, [inv[i] EXCEPT !.response =
                          [kind |-> "http", ok |-> FALSE, hash |-> "",
                           success |-> FALSE,
                           error |-> "Transaction failed: execution reverted"]])
  /\ UNCHANGED <<config, walletClient, envChanges, now, posts, calls, hashVars, codecVars, auxVars>>

\* the request never reaches the relayer: fetch rejects
TransportFailure(i) ==
  /\ inv[i].pc = "fetch" /\ inv[i].response.kind = "none"
  /\ Set(i, [inv[i] EXCEPT !.response =
               [kind |-> "transport", ok |-> FALSE, hash |-> "", success |-> FALSE,
                error |-> "fetch failed"]])
  /\ UNCHANGED <<config, walletClient, envChanges, relayerNonce, tokenNonce, now,
                 posts, accepted, calls, hashVars, codecVars, auxVars>>

\* a relayer service that answers 200 with an error field in the body
ErrorBodyResponse(i) ==
  /\ inv[i].pc = "fetch" /\ inv[i].response.kind = "none"
  /\ Set(i, [inv[i] EXCEPT !.response =
               [kind |-> "http", ok |-> TRUE, hash |-> "", success |-> FALSE,
                error |-> "Insufficient balance"]])
  /\ UNCHANGED <<config, walletClient, envChanges, relayerNonce, tokenNonce, now,
                 posts, accepted, calls, hashVars, codecVars, auxVars>>

\* error.error || 'Relayer service request failed'
ErrorOr(msg) == IF msg = "" THEN "Relayer service request failed" ELSE msg

\* what executeTransferViaService makes of the answer to its fetch
ServiceOutcome(resp) ==
  IF resp.kind = "transport"
  THEN [resolved |-> FALSE, error |-> "Relayer service error: " \o resp.error,
        result |-> NoResult]
  ELSE IF ~resp.ok
  THEN [resolved |-> FALSE, error |-> "Relayer service error: " \o ErrorOr(resp.error),
        result |-> NoResult]
  ELSE [resolved |-> TRUE, error |-> "",
        result |-> [hash |-> resp.hash, success |-> resp.success, metaTxHash |-> ""]]

\* a faulty executeTransferViaService that POSTs the same envelope again when
\* the submission failed
FetchReturnRetrying(i) ==
  /\ inv[i].pc = "fetch" /\ inv[i].response.kind # "none"
  /\ LET out == ServiceOutcome(inv[i].response) IN
     IF out.resolved
     THEN /\ Set(i, Resolved(inv[i], out.result))
          /\ UNCHANGED posts
     ELSE /\ Set(i, [inv[i] EXCEPT !.response = NoResponse, !.log = Append(@, "POST")])
          /\ posts' = [posts EXCEPT ![i] = Append(@, posts[i][1])]
  /\ UNCHANGED <<config, walletClient, envChanges, relayerNonce, tokenNonce, now,
                 accepted, calls, hashVars, codecVars, auxVars>>

\* fetch settles and executeTransferViaService returns or throws
FetchReturn(i) ==
  /\ inv[i].pc = "fetch" /\ inv[i].response.kind # "none"
  /\ LET out == ServiceOutcome(inv[i].response) IN
     IF out.resolved
     THEN Set(i, Resolved(inv[i], out.result))
     ELSE Set(i, Rejected(inv[i], out.error))
  /\ UNCHANGED <<config, walletClient, envChanges, relayerNonce, tokenNonce, now,
                 posts, accepted, calls, hashVars, codecVars, auxVars>>

(***************************************************************************)
(* The SDK after construction, and its steps.                              *)
(***************************************************************************)
ResolvedConfigs ==
  {resolveConfig(c).config : c \in {g \in GaslessConfigs : resolveConfig(g).ok}}

Init ==
  /\ config \in ResolvedConfigs
  /\ walletClient = "null"
  /\ envChanges = 0
  /\ relayerNonce = [o \in Owners |-> 0]
  /\ tokenNonce = [o \in Owners |-> IF o = "0xA1" THEN 1 ELSE 0]
  /\ now = StartTime
  /\ inv = [i \in Invs |-> IdleInv]
  /\ posts = [i \in Invs |-> <<>>]
  /\ accepted = {}
  /\ calls = 0
  /\ hashIn = NoHashIn
  /\ hashOut = NoHashOut
  /\ codecIn = NoCodecIn
  /\ codecOut = NoCodecOut
  /\ facade = IdleFacade
  /\ aa = IdleAA
  /\ mw = IdleMw

Next ==
  \/ \E w \in Owners \cup {"noaccount"} : setWalletClient(w)
  \/ \E i \in Invs : estimateGas(i)
  \/ \E i \in Invs, p \in TransferParams : transferGasless(i, p)
  \/ \E i \in Invs, res \in Owners \cup {"none", "fail"} : EthAccountsReturn(i, res)
  \/ \E i \in Invs, ok \in BOOLEAN : getUserNonce(i, ok)
  \/ \E i \in Invs, ok \in BOOLEAN : getTokenNonce(i, ok)
  \/ \E i \in Invs, ok \in BOOLEAN : getTokenInfo(i, ok)
  \/ \E i \in Invs, versionOk \in BOOLEAN, domainOk \in BOOLEAN :
       getTokenVersion(i, versionOk, domainOk)
  \/ \E i \in Invs : BuildAndSignPermit(i)
  \/ \E i \in Invs, sig \in WalletSignatures, userOk \in BOOLEAN :
       SignPermitReturn(i, sig, userOk)
  \/ \E i \in Invs, ok \in BOOLEAN : GetChainIdReturn(i, ok)
  \/ \E i \in Invs, userOk \in BOOLEAN : SignMetaTxReturn(i, userOk)
  \/ \E i \in Invs, userOk \in BOOLEAN : SignAuthReturn(i, userOk)
  \/ \E i \in Invs : RelayTransaction(i)
  \/ \E i \in Invs : TransportFailure(i)
  \/ \E i \in Invs : ErrorBodyResponse(i)
  \/ \E i \in Invs : FetchReturn(i)

Spec == Init /\ [][Next]_vars

(***************************************************************************)
(* createMetaTransferHash applied to bounded inputs.                       *)
(***************************************************************************)
HashDomains ==
  [name : {"GaslessRelayer", "DifferentContract"}, version : {"1", "2"},
   chainId : {5000, 5003},
   verifyingContract : {"0xR", "0xR2", ChecksumSpelling, LowerCaseSpelling}]

HashMetaTxs ==
  [owner : Owners, token : {Token}, recipient : {Recipient}, amount : {0, 1000000},
   fee : {0, 10000}, deadline : {1704067200}, nonce : {0, 1}]

InitHash ==
  /\ config = resolveConfig(CHOOSE c \in GaslessConfigs : c.chainPreset # Undefined).config
  /\ walletClient = "null"
  /\ envChanges = 0
  /\ relayerNonce = [o \in Owners |-> 0]
  /\ tokenNonce = [o \in Owners |-> 0]
  /\ now = StartTime
  /\ inv = [i \in Invs |-> IdleInv]
  /\ posts = [i \in Invs |-> <<>>]
  /\ accepted = {}
  /\ calls = 0
  /\ hashIn \in [domain : HashDomains, metaTx : HashMetaTxs]
  /\ hashOut = NoHashOut
  /\ codecIn = NoCodecIn
  /\ codecOut = NoCodecOut
  /\ facade = IdleFacade
  /\ aa = IdleAA
  /\ mw = IdleMw

HashMetaTransfer ==
  /\ ~hashOut.done
  /\ hashOut' = [hashOut EXCEPT
                   !.done = TRUE,
                   !.digest = createMetaTransferHash(hashIn.domain, hashIn.metaTx)]
  /\ UNCHANGED <<sdkVars, hashIn, codecVars, auxVars>>

\* a call of createDomainSeparator
DomainSeparator ==
  /\ ~hashOut.separated
  /\ hashOut' = [hashOut EXCEPT !.separated = TRUE,
                                !.separator = createDomainSeparator(hashIn.domain)]
  /\ UNCHANGED <<sdkVars, hashIn, codecVars, auxVars>>

NextHash == HashMetaTransfer \/ DomainSeparator

SpecHash == InitHash /\ [][NextHash]_vars

(***************************************************************************)
(* The signature codec and the envelope serializer applied to bounded      *)
(* inputs.                                                                 *)
(***************************************************************************)
\* the characters the last byte of a signature is drawn from
VChars == {"0", "1", "b", "c", "B", "C", "f", "F"}

\* 65-byte signatures: 0x, r, s, v
ValidSignatures ==
  { <<"0", "x">> \o r \o s \o <<a, b>> :
      r \in {Fill("a", 64), Fill("1", 64), Fill("E", 64)},
      s \in {Fill("b", 64), Fill("0", 64)},
      a \in VChars, b \in VChars }

\* hex strings of other lengths: 0, 1, 3, 32, 64 (a compact signature), 66 bytes
\* and two with an odd number of digits
OtherLengthSignatures ==
  { <<"0", "x">> \o Fill("1", n) : n \in {0, 1, 6, 64, 128, 129, 131, 132} }

SignatureInputs == ValidSignatures \cup OtherLengthSignatures

\* the bigint fields of a MetaTransfer
NumberInputs ==
  [amount : {0, 1, 9, 10, 1000000, 1000000000}, fee : {0, 7, 10000},
   nonce : {0, 1, 10, 255}, deadline : {0, 99999, 1704067200, 2147483647}]

InitCodec ==
  /\ config = resolveConfig(CHOOSE c \in GaslessConfigs : c.chainPreset # Undefined).config
  /\ walletClient = "null"
  /\ envChanges = 0
  /\ relayerNonce = [o \in Owners |-> 0]
  /\ tokenNonce = [o \in Owners |-> 0]
  /\ now = StartTime
  /\ inv = [i \in Invs |-> IdleInv]
  /\ posts = [i \in Invs |-> <<>>]
  /\ accepted = {}
  /\ calls = 0
  /\ hashIn = NoHashIn
  /\ hashOut = NoHashOut
  /\ codecIn \in
       {[NoCodecIn EXCEPT !.sig = x] : x \in SignatureInputs}
         \cup {[NoCodecIn EXCEPT !.amount = n.amount, !.fee = n.fee, !.nonce = n.nonce,
                                 !.deadline = n.deadline] : n \in NumberInputs}
  /\ codecOut = NoCodecOut
  /\ facade = IdleFacade
  /\ aa = IdleAA
  /\ mw = IdleMw

CodecCall(op) ==
  /\ codecOut.op = "none"
  /\ IF op \in {"serialize"} THEN codecIn.sig = <<>> ELSE codecIn.sig # <<>>

ParseSignature ==
  /\ CodecCall("parseSignature")
  /\ codecOut' = [codecOut EXCEPT !.op = "parseSignature",
                                  !.parsed = parseSignature(codecIn.sig)]
  /\ UNCHANGED <<sdkVars, hashVars, codecIn, auxVars>>

FormatSignature ==
  /\ codecOut.op = "parseSignature" /\ codecOut.parsed.ok
  /\ codecOut' = [codecOut EXCEPT !.op = "formatSignature",
                                  !.hex = formatSignature(codecOut.parsed)]
  /\ UNCHANGED <<sdkVars, hashVars, codecIn, auxVars>>

HexToSignature ==
  /\ CodecCall("hexToSignature")
  /\ codecOut' = [codecOut EXCEPT !.op = "hexToSignature",
                                  !.parsed = hexToSignature(codecIn.sig)]
  /\ UNCHANGED <<sdkVars, hashVars, codecIn, auxVars>>

SignatureToHex ==
  /\ codecOut.op = "hexToSignature" /\ codecOut.parsed.ok
  /\ codecOut' = [codecOut EXCEPT !.op = "signatureToHex",
                                  !.hex = signatureToHex(codecOut.parsed)]
  /\ UNCHANGED <<sdkVars, hashVars, codecIn, auxVars>>

\* the permit a wallet signature is parsed for
SamplePermit ==
  [owner |-> "0xA1", spender |-> PRESET_RELAYER_ADDRESS, value |-> 6, nonce |-> 1,
   deadline |-> StartTime + DEADLINE_WINDOW]

\* signPermit, from the wallet's answer on
SignPermitParse ==
  /\ CodecCall("signPermit")
  /\ LET d == signPermitData(codecIn.sig, SamplePermit) IN
     codecOut' = [codecOut EXCEPT
                    !.op = "signPermit",
                    !.parsed = [ok |-> d.ok, error |-> d.error, v |-> d.v, r |-> d.r,
                                s |-> d.s],
                    !.permitValue = d.value, !.permitDeadline = d.deadline]
  /\ UNCHANGED <<sdkVars, hashVars, codecIn, auxVars>>

\* the locals of executeTransferViaService for the numbers of codecIn
SerializeLocals ==
  [IdleInv EXCEPT
     !.metaTx = BuildMetaTx("0xA1", [token |-> Token, to |-> Recipient,
                                     amount |-> codecIn.amount, fee |-> codecIn.fee,
                                     deadline |-> codecIn.deadline],
                            codecIn.fee, codecIn.deadline, codecIn.nonce, codecIn.nonce),
     !.permitData = [NoPermitData EXCEPT !.value = codecIn.amount + codecIn.fee,
                                         !.deadline = codecIn.deadline, !.v = 27]]

\* executeTransferViaService writes the request body
SerializeEnvelope ==
  /\ CodecCall("serialize")
  /\ LET e == Envelope(SerializeLocals) IN
     codecOut' = [codecOut EXCEPT !.op = "serialize",
                                  !.sent = [metaTx |-> e.metaTx,
                                            permitData |-> e.permitData]]
  /\ UNCHANGED <<sdkVars, hashVars, codecIn, auxVars>>

\* the relayer converts the strings it received
RelayerConvert ==
  /\ codecOut.op = "serialize"
  /\ codecOut' = [codecOut EXCEPT
                    !.op = "convert",
                    !.metaTx = metaTxForContract(codecOut.sent.metaTx),
                    !.permitData = permitDataForContract(codecOut.sent.permitData)]
  /\ UNCHANGED <<sdkVars, hashVars, codecIn, auxVars>>

NextCodec ==
  \/ ParseSignature
  \/ FormatSignature
  \/ HexToSignature
  \/ SignatureToHex
  \/ SignPermitParse
  \/ SerializeEnvelope
  \/ RelayerConvert

SpecCodec == InitCodec /\ [][NextCodec]_vars

(***************************************************************************)
(* formatTokenAmount and parseTokenAmount applied to bounded inputs.       *)
(***************************************************************************)
MaxTextLen == 5
MaxTextDecimals == 2
MaxAmountDecimals == 8

\* the characters an amount text is written with
AmountChars == {"0", "1", "5", ".", "-", "a"}

\* every text of at most MaxTextLen characters, with a number of decimals
AmountTexts ==
  UNION { [1..n -> AmountChars] : n \in 0..MaxTextLen }

\* token amounts in base units: small ones, and ones with many digits
TokenAmounts ==
  0..300 \cup {1000, 1500000, 123456789, 999999999, 1000000000, 2147483647}

InitAmount ==
  /\ config = resolveConfig(CHOOSE c \in GaslessConfigs : c.chainPreset # Undefined).config
  /\ walletClient = "null"
  /\ envChanges = 0
  /\ relayerNonce = [o \in Owners |-> 0]
  /\ tokenNonce = [o \in Owners |-> 0]
  /\ now = StartTime
  /\ inv = [i \in Invs |-> IdleInv]
  /\ posts = [i \in Invs |-> <<>>]
  /\ accepted = {}
  /\ calls = 0
  /\ hashIn = NoHashIn
  /\ hashOut = NoHashOut
  /\ codecIn \in
       {[given |-> "text", text |-> t, amount |-> 0, decimals |-> d] :
          t \in AmountTexts, d \in 0..MaxTextDecimals}
         \cup {[given |-> "amount", text |-> <<>>, amount |-> a, decimals |-> d] :
                 a \in TokenAmounts, d \in 0..MaxAmountDecimals}
  /\ codecOut = [op |-> "none", text |-> <<>>,
                 parsed |-> [ok |-> FALSE, error |-> "", value |-> NoNumber]]
  /\ facade = IdleFacade
  /\ aa = IdleAA
  /\ mw = IdleMw

FormatTokenAmount ==
  /\ codecIn.given = "amount" /\ codecOut.op = "none"
  /\ codecOut' = [codecOut EXCEPT
                    !.op = "format",
                    !.text = formatTokenAmount(codecIn.amount, codecIn.decimals)]
  /\ UNCHANGED <<sdkVars, hashVars, codecIn, auxVars>>

\* parseTokenAmount of a text the caller wrote
ParseTokenAmount ==
  /\ codecIn.given = "text" /\ codecOut.op = "none"
  /\ codecOut' = [codecOut EXCEPT
                    !.op = "parse",
                    !.parsed = parseTokenAmount(codecIn.text, codecIn.decimals)]
  /\ UNCHANGED <<sdkVars, hashVars, codecIn, auxVars>>

\* parseTokenAmount of what formatTokenAmount returned, same decimals
ParseFormatted ==
  /\ codecOut.op = "format"
  /\ codecOut' = [codecOut EXCEPT
                    !.op = "roundtrip",
                    !.parsed = parseTokenAmount(codecOut.text, codecIn.decimals)]
  /\ UNCHANGED <<sdkVars, hashVars, codecIn, auxVars>>

NextAmount ==
  \/ FormatTokenAmount
  \/ ParseTokenAmount
  \/ ParseFormatted

SpecAmount == InitAmount /\ [][NextAmount]_vars

(***************************************************************************)
(* Construction of GaslessSDK from bounded configurations, and the         *)
(* one-call facade Gasless.quickTransfer (src/simple/gasless.ts).          *)
(***************************************************************************)
\* the GaslessConfig values new GaslessSDK is called with: every option
\* absent, present, and (where the type allows it) present but empty
GaslessConfigInputs ==
  [kind : {"GaslessConfig"},
   chainPreset : {Undefined, "mantle-sepolia"},
   environment : {Undefined, "staging", "local"},
   chainId : {NoNumber, 0, 5000},
   rpcUrl : {Undefined, "", "https://rpc.mantle.xyz"},
   gaslessRelayerAddress : {Undefined, "", "0xR2"},
   relayerServiceUrl : {Undefined, "", "https://relayer.example"},
   localRelayerUrl : {Undefined, "http://localhost:4000"}]

\* the SimpleConfig values Gasless.quickTransfer is called with
SimpleConfigInputs ==
  [kind : {"SimpleConfig"},
   chainPreset : {Undefined, "mantle-sepolia"},
   environment : {Undefined, "staging"},
   chainId : {NoNumber, 5000},
   rpcUrl : {Undefined, "https://rpc.mantle.xyz"},
   relayerAddress : {Undefined, "0xR2"},
   relayerUrl : {Undefined, "https://relayer.example"},
   localRelayerUrl : {Undefined},
   bundlerUrl : {Undefined, "https://bundler.example"},
   paymasterUrl : {Undefined, "https://paymaster.example"},
   useAccountAbstraction : BOOLEAN]

\* Gasless.initializeCoreSDK: the GaslessConfig made of the options of the
\* SimpleConfig that are truthy
initializeCoreSDK(c) ==
  [chainPreset |-> IF c.chainPreset = "" THEN Undefined ELSE c.chainPreset,
   environment |-> IF c.environment = "" THEN Undefined ELSE c.environment,
   chainId |-> IF c.chainId = 0 THEN NoNumber ELSE c.chainId,
   rpcUrl |-> IF c.rpcUrl = "" THEN Undefined ELSE c.rpcUrl,
   gaslessRelayerAddress |-> IF c.relayerAddress = "" THEN Undefined ELSE c.relayerAddress,
   relayerServiceUrl |-> IF c.relayerUrl = "" THEN Undefined ELSE c.relayerUrl,
   localRelayerUrl |-> IF c.localRelayerUrl = "" THEN Undefined ELSE c.localRelayerUrl]

\* the wallet client of an SDK instance that was just constructed
\* (_walletClient: WalletClient | null = null)
NewWalletClient == "null"

InitFacade ==
  /\ config = resolveConfig(CHOOSE c \in GaslessConfigs : c.chainPreset # Undefined).config
  /\ walletClient = "null"
  /\ envChanges = 0
  /\ relayerNonce = [o \in Owners |-> 0]
  /\ tokenNonce = [o \in Owners |-> 0]
  /\ now = StartTime
  /\ inv = [i \in Invs |-> IdleInv]
  /\ posts = [i \in Invs |-> <<>>]
  /\ accepted = {}
  /\ calls = 0
  /\ hashIn = NoHashIn
  /\ hashOut = NoHashOut
  /\ codecIn = NoCodecIn
  /\ codecOut = NoCodecOut
  /\ facade \in {[IdleFacade EXCEPT !.input = c] :
                   c \in GaslessConfigInputs \cup SimpleConfigInputs}
  /\ aa = IdleAA
  /\ mw = IdleMw

\* new GaslessSDK(config): the constructor resolves the configuration or throws
NewGaslessSDK ==
  /\ facade.op = "none" /\ facade.input.kind = "GaslessConfig"
  /\ LET r == resolveConfig(facade.input) IN
     facade' = [facade EXCEPT !.op = "new GaslessSDK", !.ok = r.ok, !.error = r.error,
                              !.config = r.config]
  /\ UNCHANGED <<sdkVars, hashVars, codecVars, aa, mw>>

\* Gasless.quickTransfer(config, params): new Gasless(config), then
\* transfer(params) on it, up to the first await or throw of the SDK's
\* transferGasless
quickTransfer ==
  /\ facade.op = "none" /\ facade.input.kind = "SimpleConfig"
  /\ LET c == facade.input
         r == resolveConfig(initializeCoreSDK(c))
         called == [facade EXCEPT !.op = "quickTransfer"]
     IN facade' =
          IF c.useAccountAbstraction
          THEN IF c.bundlerUrl \in {Undefined, ""} \/ c.paymasterUrl \in {Undefined, ""}
               THEN [called EXCEPT
                       !.error = "bundlerUrl and paymasterUrl required for Account Abstraction"]
               ELSE IF ~HasAccount(NewWalletClient)
               THEN [called EXCEPT
                       !.error = "Wallet client not set or no account available"]
               ELSE [called EXCEPT !.op = "transferAA"]
          ELSE IF ~r.ok
               THEN [called EXCEPT !.error = r.error]
               ELSE IF ~HasAccount(NewWalletClient)
               THEN [called EXCEPT
                       !.config = r.config,
                       !.error = "Wallet client not set or no account available"]
               ELSE [called EXCEPT !.op = "transferCore", !.config = r.config]
  /\ UNCHANGED <<sdkVars, hashVars, codecVars, aa, mw>>

NextFacade ==
  \/ NewGaslessSDK
  \/ quickTransfer

SpecFacade == InitFacade /\ [][NextFacade]_vars

(***************************************************************************)
(* The Account-Abstraction SDK (GaslessAASDK.transferGasless) with its     *)
(* smart account, paymaster and bundler clients.  Times are milliseconds.  *)
(***************************************************************************)
MaxWalletChanges == 2
WAIT_TIMEOUT == 60000
POLL_INTERVAL == 2000

\* how long the bundler takes to answer a receipt request, and how late the
\* 2-second timer may fire
AnswerDelays == {0, 1000, 25000}
TimerDelays == {0, 1000}

InitAA ==
  /\ config = resolveConfig(CHOOSE c \in GaslessConfigs : c.chainPreset # Undefined).config
  /\ walletClient = "null"
  /\ envChanges = 0
  /\ relayerNonce = [o \in Owners |-> 0]
  /\ tokenNonce = [o \in Owners |-> 0]
  /\ now = StartTime
  /\ inv = [i \in Invs |-> IdleInv]
  /\ posts = [i \in Invs |-> <<>>]
  /\ accepted = {}
  /\ calls = 0
  /\ hashIn = NoHashIn
  /\ hashOut = NoHashOut
  /\ codecIn = NoCodecIn
  /\ codecOut = NoCodecOut
  /\ facade = IdleFacade
  /\ aa = IdleAA
  /\ mw = IdleMw

\* catch (error) { throw new Error(`Gasless transfer failed: ${error.message}`) }
AAFailed(msg) ==
  [aa EXCEPT !.pc = "rejected", !.error = "Gasless transfer failed: " \o msg]

\* GaslessAASDK.setWalletClient
setWalletClientAA(w) ==
  /\ aa.walletChanges < MaxWalletChanges
  /\ aa' = [aa EXCEPT !.walletClient = w, !.walletChanges = @ + 1]
  /\ UNCHANGED <<sdkVars, hashVars, codecVars, facade, mw>>

\* transferGasless, to its first await: the wallet check, then
\* getSmartAccountInfo asks the factory for the account address
transferGaslessAA ==
  /\ aa.pc = "idle"
  /\ aa' = IF ~HasAccount(aa.walletClient)
           THEN [aa EXCEPT !.pc = "rejected",
                           !.error = "Wallet client not set or no account available"]
           ELSE [aa EXCEPT !.pc = "getAddress", !.owner = aa.walletClient,
                           !.log = Append(@, "smartAccountInfo")]
  /\ UNCHANGED <<sdkVars, hashVars, codecVars, facade, mw>>

\* SmartAccount.getSmartAccountInfo: the factory's getAddress, getBytecode and,
\* for a deployed account, getNonce answer (res: "ok", "none" for no code,
\* "fail"); a failed getNonce is logged and the nonce stays 0; then
\* getTokenInfo reads the token
getSmartAccountInfo(res) ==
  /\ aa.pc \in {"getAddress", "getBytecode", "getNonce"}
  /\ res = "none" => aa.pc = "getBytecode"
  /\ aa' =
       IF aa.pc = "getAddress"
       THEN IF res = "fail"
            THEN AAFailed("Failed to get smart account address: Error: Network error")
            ELSE [aa EXCEPT !.pc = "getBytecode"]
       ELSE IF aa.pc = "getBytecode"
       THEN IF res = "fail" THEN AAFailed("Network error")
            ELSE IF res = "ok" THEN [aa EXCEPT !.pc = "getNonce"]
            ELSE [aa EXCEPT !.pc = "tokenInfo", !.log = Append(@, "tokenInfo")]
       ELSE [aa EXCEPT !.pc = "tokenInfo", !.log = Append(@, "tokenInfo")]
  /\ UNCHANGED <<sdkVars, hashVars, codecVars, facade, mw>>

\* getTokenInfo answers; the call data is encoded and buildUserOperation asks
\* for the gas price
getTokenInfoAA(ok) ==
  /\ aa.pc = "tokenInfo"
  /\ aa' = IF ~ok THEN AAFailed("Failed to get token info: Network error")
           ELSE [aa EXCEPT !.pc = "gasPrice", !.log = Append(@, "build")]
  /\ UNCHANGED <<sdkVars, hashVars, codecVars, facade, mw>>

\* a faulty build that hands the operation to the bundler as soon as the
\* paymaster data are in, without the owner's signature
buildUserOperationThenSend(ok) ==
  /\ aa.pc \in {"gasPrice", "paymaster"}
  /\ aa' =
       IF ~ok THEN AAFailed("Network error")
       ELSE IF aa.pc = "gasPrice" THEN [aa EXCEPT !.pc = "paymaster"]
       ELSE [aa EXCEPT !.pc = "send", !.userOp.paymaster = TRUE,
                       !.sent = Append(@, [aa.userOp EXCEPT !.paymaster = TRUE]),
                       !.log = Append(@, "send")]
  /\ UNCHANGED <<sdkVars, hashVars, codecVars, facade, mw>>

\* buildUserOperation: getGasPrice answers and the paymaster is asked; the
\* paymaster answers and signUserOperation asks the wallet client the SDK
\* holds now to sign the operation's hash
buildUserOperation(ok) ==
  /\ aa.pc \in {"gasPrice", "paymaster"}
  /\ aa' =
       IF ~ok THEN AAFailed("Network error")
       ELSE IF aa.pc = "gasPrice" THEN [aa EXCEPT !.pc = "paymaster"]
       ELSE IF ~HasAccount(aa.walletClient)
       THEN AAFailed("Wallet client must have an account")
       ELSE [aa EXCEPT !.pc = "sign", !.userOp.paymaster = TRUE,
                       !.userOp.signer = aa.walletClient,
                       !.log = Append(@, "sign")]
  /\ UNCHANGED <<sdkVars, hashVars, codecVars, facade, mw>>

\* the wallet answers signMessage; the signed operation goes to the bundler
signUserOperation(userOk) ==
  /\ aa.pc = "sign"
  /\ aa' =
       IF ~userOk THEN AAFailed("User rejected the request")
       ELSE LET signed == [aa.userOp EXCEPT !.signed = TRUE]
            IN [aa EXCEPT !.pc = "send", !.userOp = signed,
                          !.sent = Append(@, signed), !.log = Append(@, "send")]
  /\ UNCHANGED <<sdkVars, hashVars, codecVars, facade, mw>>

\* eth_sendUserOperation answers; waitForUserOperationReceipt notes the start
\* time and, the timeout being positive, makes its first receipt request
sendUserOperation(ok) ==
  /\ aa.pc = "send"
  /\ aa' =
       IF ~ok THEN AAFailed("Bundler request failed: Bundler error -32602: rejected")
       ELSE IF 0 < WAIT_TIMEOUT
       THEN [aa EXCEPT !.pc = "poll", !.userOpHash = "0xuserophash", !.elapsed = 0,
                       !.log = Append(@, "wait")]
       ELSE [AAFailed("UserOperation receipt not found after 60000ms")
               EXCEPT !.userOpHash = "0xuserophash", !.log = Append(aa.log, "wait")]
  /\ UNCHANGED <<sdkVars, hashVars, codecVars, facade, mw>>

\* a faulty wait that returns whatever the first answer holds
getUserOperationReceiptReturningAny(res, d) ==
  /\ aa.pc = "poll"
  /\ LET answered == [aa EXCEPT !.elapsed = @ + d, !.polls = Append(@, res)] IN
     aa' = IF res = "fail"
           THEN [answered EXCEPT
                   !.pc = "rejected",
                   !.error = "Gasless transfer failed: Bundler request failed: Network error"]
           ELSE [answered EXCEPT !.pc = "resolved", !.receipt = res]
  /\ UNCHANGED <<sdkVars, hashVars, codecVars, facade, mw>>

\* a receipt request answers after d ms (res: "receipt", "null" or "fail"):
\* a receipt is returned and transferGasless resolves, null starts the
\* 2-second timer
getUserOperationReceipt(res, d) ==
  /\ aa.pc = "poll"
  /\ LET answered == [aa EXCEPT !.elapsed = @ + d, !.polls = Append(@, res)] IN
     aa' = IF res = "fail"
           THEN [answered EXCEPT
                   !.pc = "rejected",
                   !.error = "Gasless transfer failed: Bundler request failed: Network error"]
           ELSE IF res = "receipt"
           THEN [answered EXCEPT !.pc = "resolved", !.receipt = res]
           ELSE [answered EXCEPT !.pc = "sleep"]
  /\ UNCHANGED <<sdkVars, hashVars, codecVars, facade, mw>>

\* the timer fires, d ms late: the loop asks again while less than the timeout
\* has passed since the start, and throws otherwise
pollTimer(d) ==
  /\ aa.pc = "sleep"
  /\ LET woken == [aa EXCEPT !.elapsed = @ + POLL_INTERVAL + d] IN
     aa' = IF woken.elapsed < WAIT_TIMEOUT
           THEN [woken EXCEPT !.pc = "poll"]
           ELSE [woken EXCEPT
                   !.pc = "rejected",
                   !.error = "Gasless transfer failed: "
                               \o "UserOperation receipt not found after 60000ms"]
  /\ UNCHANGED <<sdkVars, hashVars, codecVars, facade, mw>>

NextAA ==
  \/ \E w \in {"noaccount", "0xA1", "0xA2"} : setWalletClientAA(w)
  \/ transferGaslessAA
  \/ \E res \in {"ok", "none", "fail"} : getSmartAccountInfo(res)
  \/ \E ok \in BOOLEAN : getTokenInfoAA(ok)
  \/ \E ok \in BOOLEAN : buildUserOperation(ok)
  \/ \E userOk \in BOOLEAN : signUserOperation(userOk)
  \/ \E ok \in BOOLEAN : sendUserOperation(ok)
  \/ \E res \in {"receipt", "null", "fail"}, d \in AnswerDelays :
       getUserOperationReceipt(res, d)
  \/ \E d \in TimerDelays : pollTimer(d)

SpecAA == InitAA /\ [][NextAA]_vars

\* every receipt request is answered and every timer fires
SpecAALive ==
  /\ SpecAA
  /\ WF_vars(\E res \in {"receipt", "null", "fail"}, d \in AnswerDelays :
               getUserOperationReceipt(res, d))
  /\ WF_vars(\E d \in TimerDelays : pollTimer(d))

(***************************************************************************)
(* The example relayer's nonce middleware (SecurityManager.checkNonce of   *)
(* examples/security/auth-middleware.js) in front of its key-value store.  *)
(***************************************************************************)
\* `${metaTx.owner}:${metaTx.nonce}` of the requests that arrive
NonceKeys == {"0xA1:0", "0xA1:1"}

InitMw ==
  /\ config = resolveConfig(CHOOSE c \in GaslessConfigs : c.chainPreset # Undefined).config
  /\ walletClient = "null"
  /\ envChanges = 0
  /\ relayerNonce = [o \in Owners |-> 0]
  /\ tokenNonce = [o \in Owners |-> 0]
  /\ now = StartTime
  /\ inv = [i \in Invs |-> IdleInv]
  /\ posts = [i \in Invs |-> <<>>]
  /\ accepted = {}
  /\ calls = 0
  /\ hashIn = NoHashIn
  /\ hashOut = NoHashOut
  /\ codecIn = NoCodecIn
  /\ codecOut = NoCodecOut
  /\ facade = IdleFacade
  /\ aa = IdleAA
  /\ mw = IdleMw

\* checkNonce(req, res, next) is called for a request and asks the store for
\* the key
checkNonce(q, key) ==
  /\ mw.req[q].pc = "none"
  /\ mw' = [mw EXCEPT !.req[q] = [pc |-> "get", key |-> key, outcome |-> ""]]
  /\ UNCHANGED <<sdkVars, hashVars, codecVars, facade, aa>>

\* redisClient.get answers: a used key is answered 400, an unused one is
\* written with setEx; an error of the store is caught and next() is called
redisGet(q, ok) ==
  /\ mw.req[q].pc = "get"
  /\ mw' = IF ~ok
           THEN [mw EXCEPT !.storeFailed = TRUE, !.req[q].pc = "done",
                           !.req[q].outcome = "next"]
           ELSE IF mw.req[q].key \in mw.store
           THEN [mw EXCEPT !.req[q].pc = "done",
                           !.req[q].outcome = "400 Nonce already used"]
           ELSE [mw EXCEPT !.req[q].pc = "setEx"]
  /\ UNCHANGED <<sdkVars, hashVars, codecVars, facade, aa>>

\* redisClient.setEx answers and next() is called, also when the store failed
redisSetEx(q, ok) ==
  /\ mw.req[q].pc = "setEx"
  /\ mw' = [mw EXCEPT !.store = IF ok THEN @ \cup {mw.req[q].key} ELSE @,
                      !.storeFailed = @ \/ ~ok,
                      !.req[q].pc = "done", !.req[q].outcome = "next"]
  /\ UNCHANGED <<sdkVars, hashVars, codecVars, facade, aa>>

\* the 86400 seconds of a key are over and the store drops it
redisExpire(key) ==
  /\ key \in mw.store
  /\ mw' = [mw EXCEPT !.store = @ \ {key}]
  /\ UNCHANGED <<sdkVars, hashVars, codecVars, facade, aa>>

NextMw ==
  \/ \E q \in 1..MaxRequests, key \in NonceKeys : checkNonce(q, key)
  \/ \E q \in 1..MaxRequests, ok \in BOOLEAN : redisGet(q, ok)
  \/ \E q \in 1..MaxRequests, ok \in BOOLEAN : redisSetEx(q, ok)
  \/ \E key \in NonceKeys : redisExpire(key)

SpecMw == InitMw /\ [][NextMw]_vars

(***************************************************************************)
(* Properties of the typed-data hasher.                                    *)
(***************************************************************************)

\* C1: the digest createMetaTransferHash returns is the hash of exactly the
\* 66 bytes 0x19, 0x01, domain separator, struct hash, packed with no padding.
C1_DigestOfPackedPrefix ==
  hashOut.done =>
    LET ds == createDomainSeparator(hashIn.domain)
        sh == keccak256(encodeMetaTransferData(hashIn.metaTx))
    IN /\ hashOut.digest = keccak256(<<Byte(25), Byte(1), ds, sh>>)
       /\ ByteLen(hashOut.digest.pre) = 66

(***************************************************************************)
(* Properties of the transfer orchestrator.                                *)
(***************************************************************************)
Posted(i) == posts[i] # <<>>

\* C2: the ordered list of MetaTransfer fields is the same in the type string,
\* in encodeMetaTransferData, in the types given to signTypedData and in the
\* relayer's executeMetaTransfer tuple, so the tuple the relayer sends on-chain
\* lists the values in the order in which the wallet hashed them.
C2_FieldOrderIdentical ==
  \A i \in Invs : Posted(i) =>
    /\ MetaTransferTypeStringFields = EncodeMetaTransferFields
    /\ EncodeMetaTransferFields = SignTypedDataMetaTransferTypes
    /\ SignTypedDataMetaTransferTypes = GaslessAbiMetaTxComponents
    /\ \A k \in 1..Len(posts[i]) :
         RelayerCallTuple(posts[i][k]) = SignedStructValues(posts[i][k].signature)

\* C3: the MetaTransfer is signed under the relayer contract's own domain:
\* GaslessRelayer, version 1, the configured chainId and relayer address.
C3_SignedUnderRelayerDomain ==
  \A i \in Invs : inv[i].pc = "signMetaTx" =>
    inv[i].signReq.domain =
      [name |-> "GaslessRelayer", version |-> "1", chainId |-> config.chainId,
       verifyingContract |-> config.gaslessRelayerAddress]

InFlightBuilt == {"signPermit", "getChainId", "signMetaTx", "signAuth", "fetch"}

\* the step in which invocation i receives the answer of read rd
Answered(i, rd) ==
  /\ inv[i].pc = "reads" /\ rd \in inv[i].pending
  /\ inv'[i].pc = "reads" /\ rd \notin inv'[i].pending

\* C4: the MetaTransfer nonce is what getNonce(owner) answered in this
\* invocation and the Permit nonce is what nonces(owner) answered in this
\* invocation: each answer is the chain's counter at that moment, the two are
\* not swapped, and what is signed and POSTed carries them.
C4_NoncesFromOwnReads ==
  /\ [][\A i \in Invs :
          /\ Answered(i, "getNonce") =>
               inv'[i].userNonce = relayerNonce[inv[i].userAddress]
          /\ Answered(i, "nonces") =>
               inv'[i].tokenNonce = tokenNonce[inv[i].userAddress]
          /\ (inv[i].pc \in InFlightBuilt /\ inv'[i].pc \in InFlightBuilt
                /\ inv'[i].id = inv[i].id) =>
               /\ inv'[i].userNonce = inv[i].userNonce
               /\ inv'[i].tokenNonce = inv[i].tokenNonce]_vars
  /\ [](\A i \in Invs :
          /\ inv[i].pc \in InFlightBuilt =>
               /\ inv[i].userNonce # NoNumber /\ inv[i].tokenNonce # NoNumber
               /\ inv[i].metaTx.nonce = inv[i].userNonce
               /\ inv[i].permitRequest.nonce = inv[i].tokenNonce
          /\ inv[i].pc = "signPermit" =>
               inv[i].signReq.permit.nonce = inv[i].tokenNonce
          /\ inv[i].pc = "signMetaTx" =>
               inv[i].signReq.metaTx.nonce = inv[i].userNonce
          /\ (inv[i].pc = "fetch" /\ Posted(i)) =>
               LET e == posts[i][1] IN
               /\ BigInt(e.metaTx.nonce) = inv[i].userNonce
               /\ e.signature.metaTx.nonce = inv[i].userNonce
               /\ e.permitData.r.permit.nonce = inv[i].tokenNonce)

\* an envelope is in flight whose two nonces differ
C4_Witness ==
  \E i \in Invs :
    /\ inv[i].pc = "fetch" /\ Posted(i)
    /\ inv[i].userNonce # inv[i].tokenNonce
    /\ BigInt(posts[i][1].metaTx.nonce) = relayerNonce[inv[i].userAddress]

\* the I/O one run of transferGasless issues, in the order of the code
StepOrder ==
  <<"eth_accounts", "getNonce", "nonces", "tokenInfo", "tokenVersion",
    "signPermit", "getChainId", "signMetaTx", "signMessage", "POST">>

IsPrefix(s, t) == Len(s) <= Len(t) /\ s = SubSeq(t, 1, Len(s))

NoWalletMessage == "Wallet client not set or no account available"

\* the step in which a call of transferGasless or estimateGas enters slot i
Called(i) == calls' = calls + 1 /\ inv'[i].id = calls'

\* C6: a call of transferGasless or estimateGas made while no wallet client is
\* set, or while the wallet client has no account, rejects with 'Wallet client
\* not set or no account available' and has issued no read, no wallet request,
\* no signing call and no HTTP request.
C6_NoWalletRejectsBeforeIO ==
  [][\A i \in Invs :
       (Called(i) /\ ~HasAccount(walletClient)) =>
         /\ inv'[i].kind \in {"transferGasless", "estimateGas"}
         /\ inv'[i].pc = "rejected"
         /\ inv'[i].error = NoWalletMessage
         /\ inv'[i].log = <<>>
         /\ posts'[i] = <<>>]_vars

\* transferGasless was called on a wallet client without account and rejected
C6_Witness ==
  \E i \in Invs :
    /\ walletClient = "noaccount"
    /\ inv[i].kind = "transferGasless" /\ inv[i].pc = "rejected"
    /\ inv[i].error = NoWalletMessage /\ inv[i].log = <<>>

\* C7: no envelope whose MetaTransfer deadline is already past (deadline < now)
\* is ever POSTed: a call with such a deadline is rejected by the SDK itself.
C7_NoExpiredDeadlinePosted ==
  \A i \in Invs : \A k \in 1..Len(posts[i]) :
    BigInt(posts[i][k].metaTx.deadline) >= now

\* the answers of the relayer POST that count as failures
FailedResponse(resp) ==
  \/ resp.kind = "transport"
  \/ resp.kind = "http" /\ ~resp.ok
  \/ resp.kind = "http" /\ resp.error # ""

\* C8: a run whose POST failed in transport, was answered with a non-2xx
\* status, or was answered with a JSON body carrying an error field, rejects
\* with 'Relayer service error: ' followed by the underlying message, and
\* never resolves.
C8_FailuresReject ==
  \A i \in Invs :
    (inv[i].pc \in {"rejected", "resolved"} /\ FailedResponse(inv[i].response)) =>
      /\ inv[i].pc = "rejected"
      /\ inv[i].error = "Relayer service error: " \o inv[i].response.error

\* C9: one invocation sends at most one POST; posts are sent only by the step
\* that follows the auth signature, never after a submission failed; and every
\* signature in an envelope was requested by the invocation that POSTs it.
C9_AtMostOnePostNoResubmission ==
  /\ [][\A i \in Invs :
          posts'[i] # posts[i] =>
            \/ posts'[i] = <<>> /\ Called(i)
            \/ /\ inv[i].pc = "signAuth" /\ posts[i] = <<>> /\ Len(posts'[i]) = 1
               /\ inv'[i].id = inv[i].id]_vars
  /\ [](\A i \in Invs :
          /\ Len(posts[i]) <= 1
          /\ \A k \in 1..Len(posts[i]) :
               /\ posts[i][k].signature.inv = inv[i].id
               /\ posts[i][k].permitData.r.inv = inv[i].id
               /\ posts[i][k].permitData.s.inv = inv[i].id)

\* a submission failed and was not sent again, and a later invocation has
\* POSTed an envelope of its own
C9_Witness ==
  \E i \in Invs, j \in Invs :
    /\ inv[i].pc = "rejected" /\ FailedResponse(inv[i].response) /\ Len(posts[i]) = 1
    /\ inv[j].id > inv[i].id /\ Len(posts[j]) = 1
    /\ posts[j][1].signature.inv = inv[j].id

\* C10: an invocation called after a transfer of owner o was accepted builds,
\* for o, a MetaTransfer whose nonce is strictly greater than the accepted one.
C10_NonceGrowsAfterAccepted ==
  \A i \in Invs :
    inv[i].pc \in InFlightBuilt =>
      \A a \in inv[i].acceptedAtCall :
        a.owner = inv[i].metaTx.owner => inv[i].metaTx.nonce > a.nonce

\* an invocation called after an accepted transfer of the same owner has built
\* its MetaTransfer
C10_Witness ==
  \E i \in Invs :
    /\ inv[i].pc \in InFlightBuilt
    /\ \E a \in inv[i].acceptedAtCall : a.owner = inv[i].metaTx.owner

(***************************************************************************)
(* Two invocations racing for one owner.                                   *)
(***************************************************************************)
\* the submissions of owner o the chain has accepted
AcceptedOf(o) == {a \in accepted : a.owner = o}

\* invocations i and j run for the same owner and token, both have built
\* their MetaTransfer, and no submission of that owner has landed since
\* either was called
Racing(i, j) ==
  /\ i # j
  /\ inv[i].pc \in InFlightBuilt /\ inv[j].pc \in InFlightBuilt
  /\ inv[i].metaTx.owner = inv[j].metaTx.owner
  /\ inv[i].metaTx.token = inv[j].metaTx.token
  /\ AcceptedOf(inv[i].metaTx.owner) \subseteq
       (inv[i].acceptedAtCall \cap inv[j].acceptedAtCall)

\* the relayer answered invocation i's POST with success
Landed(i) == Posted(i) /\ inv[i].response.kind = "http" /\ inv[i].response.success

BytesOf(hex) ==
  [k \in 1..((Len(hex) - 2) \div 2) |->
     16 * HexDigitValue(hex[2 * k + 1]) + HexDigitValue(hex[2 * k + 2])]

RoundTripped == codecOut.op \in {"formatSignature", "signatureToHex"}

\* the last byte of the signature is written without upper-case digits
LowerCaseV ==
  \A k \in {131, 132} : \E d \in 1..16 : HexDigits[d] = codecIn.sig[k]

\* C12 as stated: for every 132-character hex signature x,
\* formatSignature(parseSignature(x)) and signatureToHex(hexToSignature(x))
\* equal x character for character.
C12_RoundTripIdentity ==
  RoundTripped => codecOut.hex = codecIn.sig

\* C12 amended: for every 132-character hex signature x the round trip gives
\* 132 characters that denote the same 65 bytes as x, with the characters of
\* r and s unchanged; it gives x itself whenever the last byte of x is written
\* without upper-case digits (v is written back in lower case).
C12_RoundTripSameBytes ==
  RoundTripped =>
    /\ Len(codecOut.hex) = 132
    /\ BytesOf(codecOut.hex) = BytesOf(codecIn.sig)
    /\ SubSeq(codecOut.hex, 1, 130) = SubSeq(codecIn.sig, 1, 130)
    /\ LowerCaseV => codecOut.hex = codecIn.sig

\* a signature ending in 0b went through parseSignature and formatSignature
C12_Witness ==
  /\ codecOut.op = "formatSignature"
  /\ codecOut.parsed.v = 11
  /\ codecOut.hex = codecIn.sig

\* C13: for a 65-byte signature parseSignature returns r = bytes 0..31,
\* s = bytes 32..63, both as 0x-prefixed hex with the digits as given, and
\* v = byte 64 as an unsigned integer.
C13_ParseSplitsBytes ==
  (codecOut.op = "parseSignature" /\ Len(codecIn.sig) = 132) =>
    LET b == BytesOf(codecIn.sig) IN
    /\ codecOut.parsed.ok
    /\ BytesOf(codecOut.parsed.r) = SubSeq(b, 1, 32)
    /\ BytesOf(codecOut.parsed.s) = SubSeq(b, 33, 64)
    /\ codecOut.parsed.v = b[65]
    /\ codecOut.parsed.v \in 0..255
    /\ codecOut.parsed.r = <<"0", "x">> \o SubSeq(codecIn.sig, 3, 66)
    /\ codecOut.parsed.s = <<"0", "x">> \o SubSeq(codecIn.sig, 67, 130)

\* a signature with different halves and last byte 1c was parsed
C13_Witness ==
  /\ codecOut.op = "parseSignature" /\ codecOut.parsed.ok
  /\ codecOut.parsed.v = 28
  /\ codecOut.parsed.r # codecOut.parsed.s

\* C14: parseSignature and hexToSignature throw 'Invalid signature length'
\* for every hex string that is not 132 characters long, returning no
\* signature data, and never throw it for one of 132 characters.
C14_InvalidLengthThrows ==
  codecOut.op \in {"parseSignature", "hexToSignature"} =>
    /\ Len(codecIn.sig) # 132 =>
         /\ ~codecOut.parsed.ok
         /\ codecOut.parsed.error = "Invalid signature length"
         /\ codecOut.parsed.v = NoNumber
         /\ codecOut.parsed.r = <<>> /\ codecOut.parsed.s = <<>>
    /\ Len(codecIn.sig) = 132 =>
         /\ codecOut.parsed.ok
         /\ codecOut.parsed.error = ""

\* a signature one byte too long was refused
C14_Witness ==
  /\ codecOut.op = "parseSignature"
  /\ Len(codecIn.sig) = 134
  /\ codecOut.parsed.error = "Invalid signature length"

\* C15: when the wallet answers signPermit with a 65-byte signature whose
\* last byte is 0 or 1, the PermitData signPermit returns has v = 27 or 28.
C15_VIn27Or28Convention ==
  ( /\ codecOut.op = "signPermit"
    /\ Len(codecIn.sig) = 132
    /\ BytesOf(codecIn.sig)[65] \in {0, 1} ) =>
    /\ codecOut.parsed.ok
    /\ codecOut.parsed.v = 27 + BytesOf(codecIn.sig)[65]

\* a string of decimal digits without a leading zero
DecimalString(str) ==
  /\ Len(str) >= 1
  /\ \A k \in 1..Len(str) : \E d \in 1..10 : Digits[d] = str[k]
  /\ Len(str) > 1 => str[1] # "0"

\* C16: every bigint field of the request body is a decimal string, and the
\* relayer's BigInt of each string is the number the SDK held.
C16_DecimalStringsRoundTrip ==
  /\ codecOut.op \in {"serialize", "convert"} =>
       /\ DecimalString(codecOut.sent.metaTx.amount)
       /\ DecimalString(codecOut.sent.metaTx.fee)
       /\ DecimalString(codecOut.sent.metaTx.nonce)
       /\ DecimalString(codecOut.sent.metaTx.deadline)
       /\ DecimalString(codecOut.sent.permitData.value)
       /\ DecimalString(codecOut.sent.permitData.deadline)
  /\ codecOut.op = "convert" =>
       /\ codecOut.metaTx.amount = codecIn.amount
       /\ codecOut.metaTx.fee = codecIn.fee
       /\ codecOut.metaTx.nonce = codecIn.nonce
       /\ codecOut.metaTx.deadline = codecIn.deadline
       /\ codecOut.permitData.value = codecIn.amount + codecIn.fee
       /\ codecOut.permitData.deadline = codecIn.deadline

\* large and zero fields went to the relayer and back
C16_Witness ==
  /\ codecOut.op = "convert"
  /\ codecIn.amount = 1000000000 /\ codecIn.fee = 0 /\ codecIn.nonce = 10
  /\ codecOut.metaTx.deadline = 2147483647
  /\ codecOut.sent.metaTx.nonce = <<"1", "0">>

(***************************************************************************)
(* Properties of the submitted envelope and of the domain separator.       *)
(***************************************************************************)
\* C17: in every submitted envelope permitData.value = metaTx.amount +
\* metaTx.fee and permitData.deadline = metaTx.deadline, the fee is 0 when the
\* caller gave none, and the permit that was signed names the configured
\* relayer contract as spender.
C17_EnvelopeConsistent ==
  \A i \in Invs : \A k \in 1..Len(posts[i]) :
    LET e == posts[i][k] IN
    /\ BigInt(e.permitData.value) = BigInt(e.metaTx.amount) + BigInt(e.metaTx.fee)
    /\ BigInt(e.permitData.deadline) = BigInt(e.metaTx.deadline)
    /\ e.permitData.r.permit.spender = config.gaslessRelayerAddress
    /\ e.permitData.r.permit.value = BigInt(e.permitData.value)
    /\ e.permitData.r.permit.deadline = BigInt(e.permitData.deadline)
    /\ inv[i].pc = "fetch" =>
         /\ BigInt(e.metaTx.amount) = inv[i].params.amount
         /\ inv[i].params.fee = NoNumber => BigInt(e.metaTx.fee) = 0
         /\ inv[i].params.fee # NoNumber => BigInt(e.metaTx.fee) = inv[i].params.fee

\* an envelope of a call that gave a fee is in flight
C17_Witness ==
  \E i \in Invs :
    /\ inv[i].pc = "fetch" /\ Len(posts[i]) = 1
    /\ inv[i].params.fee = 1
    /\ BigInt(posts[i][1].permitData.value) = inv[i].params.amount + 1

\* the two domains have the same name, version and chainId and their
\* verifyingContract strings denote the same address
SameDomain(d, e) ==
  /\ d.name = e.name /\ d.version = e.version /\ d.chainId = e.chainId
  /\ AddressBytes(d.verifyingContract) = AddressBytes(e.verifyingContract)

\* C18 as stated: createDomainSeparator gives the same separator whenever it
\* is applied to the same domain, and a different separator for every domain
\* that differs from it in a field.
C18_SeparatorDiffersWithAnyField ==
  hashOut.separated =>
    /\ hashOut.separator = createDomainSeparator(hashIn.domain)
    /\ \A d \in HashDomains :
         d # hashIn.domain => createDomainSeparator(d) # hashOut.separator

\* C18 amended: createDomainSeparator gives the same separator whenever it is
\* applied to the same domain, and two domains give the same separator
\* exactly when they agree in name, version and chainId and their
\* verifyingContract denotes the same address (an address written in lower
\* case and the same address written with checksum capitals are one).
C18_SeparatorDeterminesDomain ==
  hashOut.separated =>
    /\ hashOut.separator = createDomainSeparator(hashIn.domain)
    /\ \A d \in HashDomains :
         (createDomainSeparator(d) = hashOut.separator) <=> SameDomain(d, hashIn.domain)

\* the separator of a domain whose address is written with checksum capitals
\* was computed
C18_Witness ==
  /\ hashOut.separated
  /\ hashIn.domain.verifyingContract = ChecksumSpelling
  /\ hashOut.separator =
       createDomainSeparator([hashIn.domain EXCEPT !.verifyingContract = LowerCaseSpelling])

\* C19: the version of the Permit domain transferGasless has signed is what
\* version() returned when that read succeeded, else the version field of
\* eip712Domain() when that read succeeded, and "1" only when both failed.
C19_PermitDomainVersionFromToken ==
  \A i \in Invs :
    /\ inv[i].pc \in InFlightBuilt =>
         /\ inv[i].versionSource \in {"version", "eip712Domain", "none"}
         /\ inv[i].versionSource = "version" => inv[i].permitDomain.version = TokenVersion
         /\ inv[i].versionSource = "eip712Domain" =>
              inv[i].permitDomain.version = TokenDomainVersion
         /\ inv[i].versionSource = "none" => inv[i].permitDomain.version = "1"
    /\ inv[i].pc = "signPermit" =>
         inv[i].signReq.domain.version = inv[i].permitDomain.version
    /\ inv[i].pc \in {"getChainId", "signMetaTx", "signAuth", "fetch"} =>
         inv[i].permitData.r.domain.version = inv[i].permitDomain.version
    /\ (inv[i].pc = "fetch" /\ Posted(i)) =>
         posts[i][1].permitData.r.domain.version = inv[i].permitDomain.version

\* version() failed, eip712Domain() answered, and the Permit is being signed
\* under the version it gave
C19_Witness ==
  \E i \in Invs :
    /\ inv[i].pc = "signPermit"
    /\ inv[i].versionSource = "eip712Domain"
    /\ inv[i].signReq.domain.version = TokenDomainVersion

\* the errors a failed chain read is thrown as: the operation and the
\* underlying message
ReadFailureErrors ==
  { "Failed to get user nonce: " \o "rpc error",
    "Failed to get token nonce: " \o "rpc error",
    "Failed to get token info: " \o "rpc error",
    "Failed to get token version: " \o "rpc error" }

\* C20: every failed chain read or HTTP call reaches the caller as a thrown
\* error naming the operation and carrying the underlying message: an
\* invocation goes on only if none of its reads failed, an invocation that
\* ended while its reads were out ended with such an error, and one whose POST
\* failed ended with 'Relayer service error: ' and the message.
C20_NoFailureSwallowed ==
  \A i \in Invs :
    /\ inv[i].pc \in InFlightBuilt \cup {"reads"} =>
         inv[i].versionSource \in {"", "version"}
    /\ ( /\ inv[i].pc = "rejected" /\ inv[i].kind = "transferGasless"
         /\ Len(inv[i].log) = 5
         /\ inv[i].error # "Wallet client must have an account" ) =>
         inv[i].error \in ReadFailureErrors
    /\ ( /\ inv[i].pc \in {"rejected", "resolved"}
         /\ inv[i].response.kind = "transport" \/ (inv[i].response.kind = "http" /\ ~inv[i].response.ok) ) =>
         /\ inv[i].pc = "rejected"
         /\ inv[i].error = "Relayer service error: " \o inv[i].response.error

(***************************************************************************)
(* Properties of the token-amount text functions.                          *)
(***************************************************************************)
\* C21: for every non-negative amount and every number of decimals,
\* parseTokenAmount(formatTokenAmount(amount, decimals), decimals) returns
\* the amount it started from.
C21_TokenAmountRoundTrip ==
  codecOut.op = "roundtrip" =>
    /\ codecOut.parsed.ok
    /\ codecOut.parsed.value = codecIn.amount

\* an amount whose fraction uses every decimal was formatted and parsed back
C21_Witness ==
  /\ codecOut.op = "roundtrip"
  /\ codecIn.amount = 123456789 /\ codecIn.decimals = 8
  /\ codecOut.text = <<"1", ".", "2", "3", "4", "5", "6", "7", "8", "9">>
  /\ codecOut.parsed.value = 123456789

\* one or more digits, optionally followed by one '.' and at most `decimals`
\* digits
WellFormedAmount(s, decimals) ==
  \/ IsDigits(s)
  \/ \E d \in 1..Len(s) :
       /\ s[d] = "."
       /\ IsDigits(SubSeq(s, 1, d - 1))
       /\ LET f == SubSeq(s, d + 1, Len(s)) IN
          /\ f = <<>> \/ IsDigits(f)
          /\ Len(f) <= decimals

\* C28: parseTokenAmount returns a value only for a text of one or more digits
\* optionally followed by a single '.' and at most `decimals` digits; every
\* other text is rejected with an error.
C28_ParseAcceptsOnlyWellFormed ==
  codecOut.op = "parse" =>
    /\ codecOut.parsed.ok <=> WellFormedAmount(codecIn.text, codecIn.decimals)
    /\ ~codecOut.parsed.ok => codecOut.parsed.error # ""

(***************************************************************************)
(* Properties of the orchestrator under wallet changes and without a       *)
(* relayer URL.                                                            *)
(***************************************************************************)
\* C24: a transferGasless invocation keeps the owner it started with: in every
\* POSTed envelope userAddress is metaTx.owner, and the Permit and the
\* MetaTransfer were signed by the account of that owner, whatever happens to
\* the wallet client while the invocation is suspended.
C24_OwnerKeptAcrossAwaits ==
  \A i \in Invs : \A k \in 1..Len(posts[i]) :
    LET e == posts[i][k] IN
    /\ e.userAddress = e.metaTx.owner
    /\ e.permitData.r.signer = e.metaTx.owner
    /\ e.permitData.r.permit.owner = e.metaTx.owner
    /\ e.signature.signer = e.metaTx.owner
    /\ e.signature.metaTx.owner = e.metaTx.owner

NoRelayerUrlMessage ==
  "No relayer service URL configured for " \o config.environment
    \o " environment. Please ensure your backend relayer service is running."

C29_SignPermitLengths ==
  codecOut.op = "signPermit" =>
    LET sig == codecIn.sig
        n == Len(sig)
        p == codecOut.parsed
    IN /\ p.ok <=> n \in {130, 132}
       /\ ~p.ok => p.error = "Invalid signature length"
       /\ p.ok =>
            /\ p.r = SubSeq(sig, 1, 66)
            /\ p.s = <<"0", "x">> \o SubSeq(sig, 67, 130)
            /\ codecOut.permitValue = SamplePermit.value
            /\ codecOut.permitDeadline = SamplePermit.deadline
       /\ n = 132 => p.v = 16 * HexDigitValue(sig[131]) + HexDigitValue(sig[132])
       /\ n = 130 => p.v = 27

\* signPermit completed a 64-byte signature and returned v = 27
C29_Witness ==
  /\ codecOut.op = "signPermit"
  /\ Len(codecIn.sig) = 130
  /\ codecOut.parsed.ok /\ codecOut.parsed.v = 27
  /\ codecOut.parsed.r = SubSeq(codecIn.sig, 1, 66)

(***************************************************************************)
(* Properties of the configuration and of the one-call facade.             *)
(***************************************************************************)
\* C22: with a chain preset, chainId, rpcUrl and gaslessRelayerAddress are the
\* values given, else the preset's, and the relayer URL is relayerServiceUrl,
\* else localRelayerUrl, else the preset's URL of the selected environment
\* (production when none is selected); without a preset the construction
\* throws unless chainId, rpcUrl and gaslessRelayerAddress are all given.
C22_ConfigResolution ==
  facade.op = "new GaslessSDK" =>
    LET c == facade.input
        r == facade.config
        environment == IF c.environment = Undefined THEN "production" ELSE c.environment
    IN /\ c.chainPreset = "mantle-sepolia" =>
            /\ facade.ok
            /\ r.chainId = IF c.chainId # NoNumber THEN c.chainId ELSE 5003
            /\ r.rpcUrl = IF c.rpcUrl # Undefined THEN c.rpcUrl
                          ELSE "https://rpc.sepolia.mantle.xyz"
            /\ r.gaslessRelayerAddress =
                 IF c.gaslessRelayerAddress # Undefined THEN c.gaslessRelayerAddress
                 ELSE "0xc500592C002a23EeeB4e93CCfBA60B4c2683fDa9"
            /\ r.relayerServiceUrl =
                 IF c.relayerServiceUrl # Undefined THEN c.relayerServiceUrl
                 ELSE IF c.localRelayerUrl # Undefined THEN c.localRelayerUrl
                 ELSE RELAYER_URLS("mantle-sepolia")[environment]
            /\ r.environment = environment
       /\ c.chainPreset = Undefined =>
            /\ (c.chainId = NoNumber \/ c.rpcUrl = Undefined
                  \/ c.gaslessRelayerAddress = Undefined) =>
                 /\ ~facade.ok
                 /\ facade.error =
                      "When not using a preset, chainId, rpcUrl, and gaslessRelayerAddress are required"
            /\ facade.ok =>
                 /\ r.chainId = c.chainId /\ r.rpcUrl = c.rpcUrl
                 /\ r.gaslessRelayerAddress = c.gaslessRelayerAddress
            /\ (c.chainId > 0 /\ c.rpcUrl \notin {Undefined, ""}
                  /\ c.gaslessRelayerAddress \notin {Undefined, ""}) =>
                 /\ facade.ok
                 /\ r.relayerServiceUrl =
                      IF c.relayerServiceUrl # Undefined THEN c.relayerServiceUrl
                      ELSE IF c.localRelayerUrl # Undefined THEN c.localRelayerUrl
                      ELSE ""
                 /\ r.environment = environment

\* an SDK was constructed from a preset with a chainId of its own and a local
\* relayer URL
C22_Witness ==
  /\ facade.op = "new GaslessSDK"
  /\ facade.input.chainPreset = "mantle-sepolia"
  /\ facade.input.chainId = 5000 /\ facade.input.rpcUrl = Undefined
  /\ facade.input.relayerServiceUrl = Undefined
  /\ facade.input.localRelayerUrl = "http://localhost:4000"
  /\ facade.config.chainId = 5000
  /\ facade.config.rpcUrl = "https://rpc.sepolia.mantle.xyz"
  /\ facade.config.relayerServiceUrl = "http://localhost:4000"

\* the configuration names a chain, an RPC endpoint, a relayer contract and a
\* relayer service, as the README's one-line transfer does
CompleteSimpleConfig(c) ==
  /\ ~c.useAccountAbstraction
  /\ c.chainId # NoNumber /\ c.rpcUrl # Undefined
  /\ c.relayerAddress # Undefined /\ c.relayerUrl # Undefined

\* C23: Gasless.quickTransfer(config, params) with a valid configuration goes
\* through to the relayer service without the caller setting or connecting a
\* wallet first: it is not rejected before the transfer has started.
C23_QuickTransferCompletes ==
  (facade.op # "none" /\ facade.input.kind = "SimpleConfig"
     /\ CompleteSimpleConfig(facade.input)) =>
    /\ facade.error = ""
    /\ facade.op = "transferCore"

(***************************************************************************)
(* Properties of the Account-Abstraction transfer.                         *)
(***************************************************************************)
\* the awaited steps of GaslessAASDK.transferGasless, in the order of the code
AAStepOrder == <<"smartAccountInfo", "tokenInfo", "build", "sign", "send", "wait">>

\* what the catch block makes of the failures the steps can throw
AAStepFailures ==
  {"Gasless transfer failed: " \o m :
     m \in {"Failed to get smart account address: Error: Network error",
            "Network error", "Failed to get token info: Network error",
            "Wallet client must have an account", "User rejected the request",
            "Bundler request failed: Bundler error -32602: rejected",
            "Bundler request failed: Network error",
            "UserOperation receipt not found after 60000ms"}}

\* C25: the Account-Abstraction transferGasless runs smart-account info, token
\* info, user-operation build with paymaster data, owner signature,
\* sendUserOperation and waitForUserOperationReceipt in this order; no user
\* operation is sent unsigned, the receipt is awaited only once the send has
\* returned a hash, and a failing step rejects with 'Gasless transfer failed:
\* <message>' and no later step is executed.
C25_AAStepsInOrder ==
  [][/\ IsPrefix(aa'.log, AAStepOrder)
     /\ Len(aa'.sent) <= 1
     /\ \A k \in 1..Len(aa'.sent) :
          /\ aa'.sent[k].signed /\ aa'.sent[k].paymaster
          /\ Len(aa'.log) >= 5
     /\ Len(aa'.log) = 6 => aa'.userOpHash # "" /\ Len(aa'.sent) = 1
     /\ aa'.pc = "resolved" => aa'.log = AAStepOrder
     /\ (aa'.pc = "rejected" /\ aa'.log # <<>>) => aa'.error \in AAStepFailures
     /\ (aa'.pc = "rejected" /\ aa.pc # "rejected"
           /\ aa'.error # "Gasless transfer failed: "
                            \o "UserOperation receipt not found after 60000ms") =>
          /\ aa'.log = aa.log /\ aa'.sent = aa.sent
     /\ aa.pc = "rejected" =>
          /\ aa'.pc = "rejected" /\ aa'.log = aa.log /\ aa'.sent = aa.sent
          /\ aa'.polls = aa.polls]_vars

\* a transfer went through every step and resolved with the receipt of the
\* signed operation it sent
C25_Witness ==
  /\ aa.pc = "resolved" /\ aa.log = AAStepOrder
  /\ Len(aa.sent) = 1 /\ aa.sent[1].signed /\ aa.sent[1].signer = aa.owner
  /\ aa.userOpHash # ""

\* C26: when every receipt request is answered, waitForUserOperationReceipt
\* terminates; it returns the first receipt that is not null, it throws
\* 'UserOperation receipt not found after <timeout>ms' only if every poll it
\* made returned null and the timeout has passed, and it never returns null.
C26_WaitTerminates ==
  /\ [](/\ aa.pc = "resolved" =>
             /\ aa.receipt = "receipt"
             /\ aa.polls # <<>> /\ aa.polls[Len(aa.polls)] = "receipt"
             /\ \A k \in 1..(Len(aa.polls) - 1) : aa.polls[k] = "null"
        /\ aa.pc # "resolved" => aa.receipt = "null"
        /\ (aa.pc = "rejected"
              /\ aa.error = "Gasless transfer failed: "
                              \o "UserOperation receipt not found after 60000ms") =>
             /\ \A k \in 1..Len(aa.polls) : aa.polls[k] = "null"
             /\ aa.elapsed >= WAIT_TIMEOUT)
  /\ (aa.pc \in {"poll", "sleep"}) ~> (aa.pc \in {"resolved", "rejected"})

\* the wait returned a receipt after polls that had returned null
C26_Witness ==
  /\ aa.pc = "resolved" /\ aa.receipt = "receipt"
  /\ Len(aa.polls) >= 3 /\ aa.polls[1] = "null" /\ aa.polls[2] = "null"
  /\ aa.elapsed >= 2 * POLL_INTERVAL

(***************************************************************************)
(* Properties of the relayer's nonce middleware.                           *)
(***************************************************************************)
\* C27: while its store is reachable, checkNonce lets at most one request per
\* (owner, nonce) pair through to the next handler, under every interleaving
\* of concurrent requests; every other request with the same pair is answered
\* 400 'Nonce already used'.
C27_OnePassPerNonce ==
  ~mw.storeFailed =>
    \A key \in NonceKeys :
      LET done == {q \in 1..MaxRequests : mw.req[q].key = key /\ mw.req[q].pc = "done"}
          passed == {q \in done : mw.req[q].outcome = "next"}
      IN /\ Cardinality(passed) <= 1
         /\ \A q \in done \ passed : mw.req[q].outcome = "400 Nonce already used"

====
